---- MODULE Spec2Model ----
(***************************************************************************)
(* Model of the chess-archive collection pipeline:                         *)
(*   utils/api_clients.py   source adapters (ChessComClient, LichessClient)*)
(*   utils/data_processor.py  normalizer (process_pgn_data)                *)
(*   utils/file_manager.py  archive store (save_pgn_files)                 *)
(*   utils/db_manager.py    metadata store (log_collection)                *)
(*   utils/scheduler.py, app.py  the two orchestrator paths                *)
(*                                                                         *)
(* Text is modelled as sequences of tokens.  A date, an archive key and a  *)
(* TimeControl value are sequences of integers: a non-negative integer is  *)
(* one character code (dates, archive keys) or one run of digits           *)
(* (TimeControl values); the separators are the codes below.               *)
(***************************************************************************)
EXTENDS Integers, Sequences, FiniteSets, TLC

VARIABLES
    files,            \* [account -> [bucket key -> file content]] : the bucket files
    player_info,      \* [fide_id -> NoFile or [platform -> NoEntry or summary]]
    player_accounts,  \* [account -> row of table player_accounts]
    collection_logs,  \* sequence of rows of table collection_logs
    now,              \* index of the current instant in Instants
    last,             \* record of the last collection attempt (history)
    fq,               \* the last call of get_player_games made on its own
    fr,               \* what that call returned
    cq,               \* the last call of _is_matching_time_control made on its own
    cr,               \* what that call returned
    nq,               \* the last call of process_pgn_data made on its own
    nr,               \* what that call returned
    players,          \* [fide_id -> row of table players]
    scheduled_tasks,  \* [job_id -> row of table scheduled_tasks]
    jobs,             \* [job_id -> job] : the jobs of the session's scheduler
    job_ids,          \* st.session_state.job_ids
    proc,             \* "running", "suspended" or "stopped": the process
    clock,            \* the current hour
    fired,            \* the last firing the scheduler has run or missed
    so,               \* record of the last operation on the metadata store (history)
    runs,             \* [thread -> position and locals of its collection cycle]
    batch,            \* record of the last batch of collection cycles (history)
    rq                \* the call of _make_request in progress

\* the state of the roster, of the scheduler, of the session and of the threads
rosterVars == <<players, scheduled_tasks, jobs, job_ids, proc, clock, fired, so, runs, batch, rq>>

vars == <<files, player_info, player_accounts, collection_logs, now, last,
          fq, fr, cq, cr, nq, nr, rosterVars>>

----------------------------------------------------------------------------
(* Bounds of the model *)

\* number of collection attempts in one behaviour
MaxAttempts == 2

\* length of the longest list handed to process_pgn_data on its own
MaxBatch == 3

----------------------------------------------------------------------------
(* Characters and lexicographic order of Python str *)

\* ord('/'), ord('0'), ord('-'), ord('.'), ord('?')
SlashCh == 47
ZeroCh == 48
DashCh == 45
DotCh == 46
QuestCh == 63

RECURSIVE Digits(_, _)
\* f"{n:0wd}" for 0 <= n < 10^w
Digits(n, w) ==
    IF w = 0 THEN <<>> ELSE Append(Digits(n \div 10, w - 1), ZeroCh + (n % 10))

RECURSIVE StrLess(_, _)
\* a < b on Python strings
StrLess(a, b) ==
    IF b = <<>> THEN FALSE
    ELSE IF a = <<>> THEN TRUE
    ELSE IF Head(a) # Head(b) THEN Head(a) < Head(b)
    ELSE StrLess(Tail(a), Tail(b))

StrLeq(a, b) == a = b \/ StrLess(a, b)

RECURSIVE ReplaceCh(_, _, _)
\* s.replace(old, new) for single characters
ReplaceCh(s, old, new) ==
    IF s = <<>> THEN <<>>
    ELSE <<IF Head(s) = old THEN new ELSE Head(s)>> \o ReplaceCh(Tail(s), old, new)

ContainsCh(s, c) == \E i \in 1..Len(s) : s[i] = c

RECURSIVE SplitCh(_, _)
\* s.split(sep) for a single character sep: the list of parts
SplitCh(s, sep) ==
    IF ~ContainsCh(s, sep) THEN <<s>>
    ELSE LET i == CHOOSE k \in 1..Len(s) :
                    s[k] = sep /\ \A j \in 1..(k - 1) : s[j] # sep
         IN <<SubSeq(s, 1, i - 1)>> \o SplitCh(SubSeq(s, i + 1, Len(s)), sep)

----------------------------------------------------------------------------
(* Calendar: datetime.datetime.now() and timedelta(days=n) *)

IsLeap(y) == (y % 4 = 0 /\ y % 100 # 0) \/ y % 400 = 0

DaysInMonth(y, m) ==
    IF m = 2 THEN (IF IsLeap(y) THEN 29 ELSE 28)
    ELSE IF m \in {4, 6, 9, 11} THEN 30 ELSE 31

RECURSIVE MinusDays(_, _)
\* date - datetime.timedelta(days=n)
MinusDays(date, n) ==
    IF n < date.day THEN [date EXCEPT !.day = date.day - n]
    ELSE LET py == IF date.month = 1 THEN date.year - 1 ELSE date.year
             pm == IF date.month = 1 THEN 12 ELSE date.month - 1
         IN MinusDays([year |-> py, month |-> pm, day |-> DaysInMonth(py, pm)],
                      n - date.day)

\* the instants at which the program runs, in order
Instants ==
    << [year |-> 2024, month |-> 1, day |-> 15],
       [year |-> 2024, month |-> 3, day |-> 10] >>

Today == Instants[now]

----------------------------------------------------------------------------
(* PGN text.  A raw game is a record:                                      *)
(*   ok     chess.pgn.read_game returns a game (FALSE: it returns None)    *)
(*   id     the move text                                                  *)
(*   date   value of headers.get("Date") (characters); python-chess gives  *)
(*          "????.??.??" when the text has no Date tag                     *)
(*   event  the [Event line (words), NoEvent when the text has none        *)
(*   tc     the [TimeControl value (tokens), NoTag when the text has none  *)
(*   white, black   values of the White and Black headers (characters)     *)
(*   source, wfid, bfid   Source, WhiteFideId, BlackFideId ("" = absent)   *)
(*   variant   value of the Variant header ("" = absent: standard chess)   *)

NoEvent == <<"">>
NoTag == <<0 - 9>>
NoDate == <<0 - 9>>

\* tokens of a TimeControl value that are not runs of digits: "+", "/", "-"
PlusTok == -1
SlashTok == -2
DashTok == -3

\* the words of event labels and the keywords each holds once lower-cased
WordKeywords(w) ==
    CASE w = "Bullet" -> {"bullet"}
      [] w = "Blitz" -> {"blitz"}
      [] w = "Rapidplay" -> {"rapid"}
      [] w = "Classical" -> {"classical"}
      [] w = "Standard" -> {"standard"}
      [] w = "Daily" -> {"daily"}
      [] OTHER -> {}

\* kw in event_line.lower()
EventHas(event, kw) == \E i \in 1..Len(event) : kw \in WordKeywords(event[i])

\* int(s): the value, or ValueError raised
ParseInt(s) ==
    IF Len(s) = 1 /\ s[1] >= 0 THEN [raised |-> FALSE, v |-> s[1]]
    ELSE IF Len(s) = 2 /\ s[1] = DashTok /\ s[2] >= 0
         THEN [raised |-> FALSE, v |-> 0 - s[2]]
    ELSE [raised |-> TRUE, v |-> 0]

ChessComMapping(requested) ==
    CASE requested = "bullet" -> {"bullet"}
      [] requested = "blitz" -> {"blitz"}
      [] requested = "rapid" -> {"rapid"}
      [] requested = "classical" -> {"daily", "standard"}
      [] requested = "other" ->
            {"chess960", "bughouse", "kingofthehill", "threecheck", "crazyhouse"}
      [] OTHER -> {}

\* game_type after the Event check (lines 113-124)
EventGameType(pgn) ==
    IF pgn.event = NoEvent THEN "none"
    ELSE IF EventHas(pgn.event, "bullet") THEN "bullet"
    ELSE IF EventHas(pgn.event, "blitz") THEN "blitz"
    ELSE IF EventHas(pgn.event, "rapid") THEN "rapid"
    ELSE IF EventHas(pgn.event, "classical") \/ EventHas(pgn.event, "standard")
         THEN "classical"
    ELSE IF EventHas(pgn.event, "daily") THEN "classical"
    ELSE "none"

BaseTimeType(base_time) ==
    IF base_time < 180 THEN "bullet"
    ELSE IF base_time < 600 THEN "blitz"
    ELSE IF base_time < 1800 THEN "rapid"
    ELSE "classical"

\* game_type after the TimeControl check (lines 127-153), for a game_type of
\* "none" after the Event check
TimeControlGameType(time_value) ==
    IF ContainsCh(time_value, PlusTok)
    THEN LET base_time == ParseInt(SplitCh(time_value, PlusTok)[1])
         IN IF base_time.raised THEN "none" ELSE BaseTimeType(base_time.v)
    ELSE IF ContainsCh(time_value, SlashTok) THEN "classical"
    ELSE LET base_time == ParseInt(time_value)
         IN IF base_time.raised THEN "none" ELSE BaseTimeType(base_time.v)

\* the value of game_type at line 155, for a game with a TimeControl line
GameType(pgn) ==
    IF EventGameType(pgn) # "none" THEN EventGameType(pgn)
    ELSE TimeControlGameType(pgn.tc)

\* ChessComClient._is_matching_time_control
IsMatchingTimeControl(pgn, time_controls) ==
    IF time_controls = <<>> THEN TRUE
    ELSE IF pgn.tc = NoTag THEN FALSE
    ELSE LET game_type == GameType(pgn)
         IN /\ game_type # "none"
            /\ \E i \in 1..Len(time_controls) :
                  \/ time_controls[i] = game_type
                  \/ game_type \in ChessComMapping(time_controls[i])

----------------------------------------------------------------------------
(* ChessComClient: the remote service is a record                          *)
(*   index     the status codes answered to successive requests of the     *)
(*             archive index (0: no answer, a network exception)           *)
(*   archives  the monthly archives the index lists, oldest first, each    *)
(*             [year, month, status, games]: status is the status code of  *)
(*             the bucket request, games the JSON objects of its "games"   *)
(*             list, each [has_pgn, pgn]                                   *)

\* ChessComClient._make_request on the archive index:
\*   "json"   the decoded answer of the server
\*   "empty"  {"archives": []}
\*   "raise"  Exception("Chess.com API error: ...")
RECURSIVE MakeRequest(_)
MakeRequest(responses) ==
    IF responses = <<>> THEN "empty"
    ELSE IF Head(responses) = 200 THEN "json"
    ELSE IF Head(responses) = 429 THEN MakeRequest(Tail(responses))
    ELSE IF Head(responses) = 404 THEN "empty"
    ELSE IF Head(responses) = 403 THEN "empty"
    ELSE IF Head(responses) = 0 THEN "empty"
    ELSE "raise"

\* archives_data.get('archives', []), or [] on the except path of lines 203/239
IndexArchives(server) ==
    IF MakeRequest(server.index) = "json" THEN server.archives ELSE <<>>

\* timedelta(days=...) of a bounded time_period; 0 for "All available"
WindowDays(time_period) ==
    CASE time_period = "Last month" -> 30
      [] time_period = "Last 3 months" -> 90
      [] time_period = "Last 6 months" -> 180
      [] time_period = "Last year" -> 365
      [] OTHER -> 0

\* f"{d.year:04d}/{d.month:02d}"
YearMonthStr(d) == Digits(d.year, 4) \o <<SlashCh>> \o Digits(d.month, 2)

\* archive.split("/")[-2:][0] of the archive URL .../games/YYYY/MM
ArchiveKey(archive) ==
    LET last_two == <<Digits(archive.year, 4), Digits(archive.month, 2)>>
    IN last_two[1]

\* the test of the list comprehension at lines 247-250
InDateRange(archive, start_year_month, end_year_month) ==
    /\ StrLeq(start_year_month, ArchiveKey(archive))
    /\ StrLeq(ArchiveKey(archive), end_year_month)

\* filtered_archives (all archives for "All available")
FilteredArchives(server, today, time_period) ==
    IF WindowDays(time_period) = 0 THEN IndexArchives(server)
    ELSE LET start_date == MinusDays(today, WindowDays(time_period))
             Keep(a) == InDateRange(a, YearMonthStr(start_date), YearMonthStr(today))
         IN SelectSeq(IndexArchives(server), Keep)

\* mutant of BucketGames: the games of a bucket are added whatever its request answered
BucketGamesAnyStatus(archive, time_controls) ==
    LET Keep(g) == g.has_pgn /\ IsMatchingTimeControl(g.pgn, time_controls)
        kept == SelectSeq(archive.games, Keep)
    IN [i \in 1..Len(kept) |-> kept[i].pgn]

\* the games one archive request adds to all_games (lines 216-226, 261-272)
BucketGames(archive, time_controls) ==
    IF archive.status # 200 THEN <<>>
    ELSE LET Keep(g) == g.has_pgn /\ IsMatchingTimeControl(g.pgn, time_controls)
             kept == SelectSeq(archive.games, Keep)
         IN [i \in 1..Len(kept) |-> kept[i].pgn]

RECURSIVE FetchArchivesAbort(_, _, _, _)
\* mutant of FetchArchives: the loop ends at the first bucket that is not served
FetchArchivesAbort(archives, max_games, time_controls, acc) ==
    IF archives = <<>> THEN acc
    ELSE LET next == [games |-> acc.games \o BucketGames(Head(archives), time_controls),
                      requested |-> Append(acc.requested,
                                           [year |-> Head(archives).year,
                                            month |-> Head(archives).month])]
         IN IF Head(archives).status # 200 THEN next
            ELSE FetchArchivesAbort(Tail(archives), max_games, time_controls, next)

RECURSIVE FetchArchives(_, _, _, _)
\* the loops at lines 209-231 and 254-277: all_games and the archives requested
FetchArchives(archives, max_games, time_controls, acc) ==
    IF archives = <<>> THEN acc
    ELSE FetchArchives(Tail(archives), max_games, time_controls,
            [games |-> acc.games \o BucketGames(Head(archives), time_controls),
             requested |-> Append(acc.requested,
                                  [year |-> Head(archives).year,
                                   month |-> Head(archives).month])])

\* ChessComClient.get_player_games: the list returned and the bucket requests issued
ChessComGetPlayerGames(server, today, time_period, max_games, time_controls) ==
    FetchArchives(FilteredArchives(server, today, time_period), max_games,
                  time_controls, [games |-> <<>>, requested |-> <<>>])

----------------------------------------------------------------------------
(* python-chess: chess.pgn.read_game followed by StringExporter *)

\* "????.??.??", the Date of a game whose text has no Date tag
UnknownDate ==
    <<QuestCh, QuestCh, QuestCh, QuestCh, DotCh, QuestCh, QuestCh, DotCh, QuestCh, QuestCh>>

\* game.accept(StringExporter()) of the game read from pgn_str: the seven tag
\* roster is always written, an absent tag with its default value
Reexport(pgn) ==
    [pgn EXCEPT !.date = IF pgn.date = NoDate THEN UnknownDate ELSE pgn.date,
                !.event = IF pgn.event = NoEvent THEN <<"?">> ELSE pgn.event]

----------------------------------------------------------------------------
(* LichessClient: the remote service is a record                           *)
(*   stream  the status codes answered to successive requests (0: none)    *)
(*   games   the account's games in the order the service streams them,    *)
(*           each [played, perf, pgn]                                      *)

DateLeq(a, b) ==
    \/ a.year < b.year
    \/ a.year = b.year /\ a.month < b.month
    \/ a.year = b.year /\ a.month = b.month /\ a.day <= b.day

\* lichess_perfs: the requested names Lichess knows (perfType is sent when not empty)
LichessPerfs(time_controls) ==
    LET Known(tc) == tc \in {"bullet", "blitz", "rapid", "classical", "correspondence"}
        perfs == SelectSeq(time_controls, Known)
    IN {perfs[i] : i \in 1..Len(perfs)}

\* the request parameters since, max and perfType (lines 386-430)
LichessParams(today, time_period, max_games, time_controls) ==
    [has_since |-> WindowDays(time_period) # 0,
     since |-> MinusDays(today, WindowDays(time_period)),
     max |-> IF max_games > 0 THEN max_games ELSE 0,
     perfType |-> LichessPerfs(time_controls)]

\* LichessClient._make_request: TRUE when the answer of the service is returned,
\* FALSE when a mock response with empty content is
RECURSIVE LichessMakeRequest(_)
LichessMakeRequest(responses) ==
    IF responses = <<>> THEN FALSE
    ELSE IF Head(responses) = 200 THEN TRUE
    ELSE IF Head(responses) = 429 THEN LichessMakeRequest(Tail(responses))
    ELSE FALSE

\* GET /games/user/{username}: the games the service streams for the parameters
LichessAnswer(server, params) ==
    LET Keep(g) ==
            /\ ~params.has_since \/ DateLeq(params.since, g.played)
            /\ params.perfType = {} \/ g.perf \in params.perfType
        kept == SelectSeq(server.games, Keep)
    IN IF params.max > 0 /\ Len(kept) > params.max
       THEN SubSeq(kept, 1, params.max) ELSE kept

\* LichessClient.get_player_games
LichessGetPlayerGames(server, today, time_period, max_games, time_controls) ==
    LET params == LichessParams(today, time_period, max_games, time_controls)
        answer == IF LichessMakeRequest(server.stream)
                  THEN LichessAnswer(server, params) ELSE <<>>
    IN [games |-> [i \in 1..Len(answer) |-> Reexport(answer[i].pgn)],
        requested |-> <<params>>]

----------------------------------------------------------------------------
(* Game Normalizer: utils/data_processor.py *)

\* a in b on Python strings
IsSubstr(a, b) ==
    \E i \in 0..(Len(b) - Len(a)) : SubSeq(b, i + 1, i + Len(a)) = a

\* mutant of ProcessGame: the player is looked for in Black when White is stamped already
ProcessGameOnce(pgn, platform, player_name, fide_id) ==
    LET stamped == [Reexport(pgn) EXCEPT !.source = platform]
    IN IF platform \in {"chess.com", "lichess"}
       THEN IF IsSubstr(player_name, pgn.white) /\ pgn.wfid = ""
            THEN [stamped EXCEPT !.wfid = fide_id]
            ELSE IF IsSubstr(player_name, pgn.black)
                 THEN [stamped EXCEPT !.bfid = fide_id]
                 ELSE stamped
       ELSE stamped

\* one pass of the loop of process_pgn_data over a game read_game returns
ProcessGame(pgn, platform, player_name, fide_id) ==
    LET stamped == [Reexport(pgn) EXCEPT !.source = platform]
    IN IF platform \in {"chess.com", "lichess"}
       THEN IF IsSubstr(player_name, pgn.white)
            THEN [stamped EXCEPT !.wfid = fide_id]
            ELSE IF IsSubstr(player_name, pgn.black)
                 THEN [stamped EXCEPT !.bfid = fide_id]
                 ELSE stamped
       ELSE stamped

RECURSIVE ProcessUntilMalformed(_, _, _, _)
\* mutant of process_pgn_data: the batch ends at the first entry that does not parse
ProcessUntilMalformed(pgn_list, platform, player_name, fide_id) ==
    IF pgn_list = <<>> \/ ~Head(pgn_list).ok THEN <<>>
    ELSE <<ProcessGame(Head(pgn_list), platform, player_name, fide_id)>>
         \o ProcessUntilMalformed(Tail(pgn_list), platform, player_name, fide_id)

\* process_pgn_data
process_pgn_data(pgn_list, platform, player_name, fide_id) ==
    LET Parses(g) == g.ok
        parsed == SelectSeq(pgn_list, Parses)
    IN [i \in 1..Len(parsed) |-> ProcessGame(parsed[i], platform, player_name, fide_id)]

----------------------------------------------------------------------------
(* Archive Store: utils/file_manager.py                                    *)
(*                                                                         *)
(* A bucket file is the sequence of the chunks written to it, each         *)
(* [pgn, trailer]: f.write(game) followed by f.write("\n\n").  The bucket  *)
(* files of one account are a function from the key "YYYY-MM" to the file. *)
(* player_info.json of one player is [exists, dirs, platforms]: whether    *)
(* the player directory and the file exist, the platform directories that  *)
(* exist, and the entry of each platform ([present |-> FALSE]: no entry).  *)

NoEntry == [present |-> FALSE, last_update |-> 0, total_games |-> 0, is_active |-> FALSE]

\* f"{today.year}.{today.month:02d}.{today.day:02d}"
TodayStr(today) ==
    Digits(today.year, 4) \o <<DotCh>> \o Digits(today.month, 2)
        \o <<DotCh>> \o Digits(today.day, 2)

\* f"{today.year}-{today.month:02d}"
TodayYearMonth(today) == Digits(today.year, 4) \o <<DashCh>> \o Digits(today.month, 2)

\* the separator parts = date_str.split(...) is split on (line 111)
DateSplitCh == DotCh

\* year_month of one game (lines 103-137)
YearMonthOf(pgn, today) ==
    LET header == Reexport(pgn).date
        replaced == ReplaceCh(header, DotCh, DashCh)
        date_str == IF replaced = <<>> \/ ContainsCh(replaced, QuestCh)
                    THEN TodayStr(today) ELSE replaced
        parts == SplitCh(date_str, DateSplitCh)
    IN IF Len(parts) >= 2
       THEN parts[1] \o <<DashCh>> \o parts[2]
       ELSE TodayYearMonth(today)

RECURSIVE GamesByDate(_, _, _)
\* games_by_date after the loop of lines 95-141: the keys in insertion order
\* and the list of each key
GamesByDate(pgn_list, today, acc) ==
    IF pgn_list = <<>> THEN acc
    ELSE LET g == Head(pgn_list)
             k == YearMonthOf(g, today)
         IN IF ~g.ok THEN GamesByDate(Tail(pgn_list), today, acc)
            ELSE GamesByDate(Tail(pgn_list), today,
                    IF k \in DOMAIN acc.games
                    THEN [keys |-> acc.keys,
                          games |-> [acc.games EXCEPT ![k] = Append(@, g)]]
                    ELSE [keys |-> Append(acc.keys, k),
                          games |-> [x \in (DOMAIN acc.games) \cup {k} |->
                                        IF x = k THEN <<g>> ELSE acc.games[x]]])

\* the chunks written for a list of games (lines 158-160)
Chunks(games) == [i \in 1..Len(games) |-> [pgn |-> games[i], trailer |-> "\n\n"]]

\* mutant of WriteBucket: the file is opened with "a" and keeps its prior content
WriteBucketAppend(bucket_files, year_month, games, fault, fault_k) ==
    IF Len(SplitCh(year_month, DashCh)) # 2 \/ fault = "open"
    THEN [files |-> bucket_files, saved |-> 0, failed |-> TRUE]
    ELSE LET n == IF fault = "write" /\ fault_k < Len(games) THEN fault_k ELSE Len(games)
             prior == IF year_month \in DOMAIN bucket_files
                      THEN bucket_files[year_month] ELSE <<>>
         IN [files |-> [x \in (DOMAIN bucket_files) \cup {year_month} |->
                           IF x = year_month
                           THEN prior \o Chunks(SubSeq(games, 1, n))
                           ELSE bucket_files[x]],
             saved |-> n, failed |-> fault = "write"]

\* one pass of the loop of lines 145-165 for the bucket year_month.
\* fault: "none", "open" (makedirs or open raises) or "write" (a write raises
\* after fault_k games were written)
WriteBucket(bucket_files, year_month, games, fault, fault_k) ==
    IF Len(SplitCh(year_month, DashCh)) # 2 \/ fault = "open"
    THEN [files |-> bucket_files, saved |-> 0, failed |-> TRUE]
    ELSE LET n == IF fault = "write" /\ fault_k < Len(games) THEN fault_k ELSE Len(games)
             content == Chunks(SubSeq(games, 1, n))
         IN [files |-> [x \in (DOMAIN bucket_files) \cup {year_month} |->
                           IF x = year_month THEN content ELSE bucket_files[x]],
             saved |-> n, failed |-> fault = "write"]

RECURSIVE WriteBuckets(_, _, _, _, _)
\* the loop of lines 145-165; the fault strikes the first bucket written
WriteBuckets(bucket_files, by_date, keys, faults, acc) ==
    IF keys = <<>> THEN [files |-> bucket_files, saved |-> acc.saved, failed |-> acc.failed]
    ELSE LET w == WriteBucket(bucket_files, Head(keys), by_date.games[Head(keys)],
                              IF Len(keys) = Len(by_date.keys) THEN faults.write
                              ELSE "none", faults.write_k)
         IN WriteBuckets(w.files, by_date, Tail(keys), faults,
                         [saved |-> acc.saved + w.saved, failed |-> acc.failed \/ w.failed])

\* mutant of UpdateSummary: total_games is set to the games of the last write
UpdateSummaryLastWrite(entry, total_saved, is_active, timestamp) ==
    [present |-> TRUE, last_update |-> timestamp, total_games |-> total_saved,
     is_active |-> is_active]

\* the update of player_info["platforms"][platform] (lines 177-189)
UpdateSummary(entry, total_saved, is_active, timestamp) ==
    IF ~entry.present
    THEN [present |-> TRUE, last_update |-> timestamp, total_games |-> total_saved,
          is_active |-> is_active]
    ELSE [present |-> TRUE, last_update |-> timestamp,
          total_games |-> IF is_active \/ total_saved > 0
                          THEN entry.total_games + total_saved
                          ELSE entry.total_games,
          is_active |-> is_active]

\* get_player_directory: the player directory with player_info.json and the
\* platform directory exist afterwards
get_player_directory(info, platform) ==
    [exists |-> TRUE,
     dirs |-> info.dirs \cup {platform},
     platforms |-> info.platforms]

\* whether get_player_directory has a directory or file to create (and so can fail)
CreatesDirectory(info, platform) == ~info.exists \/ platform \notin info.dirs

\* mutant of EarlyReturn: an account with nothing to save loses its archive
EarlyReturnPurge(bucket_files, info) ==
    [files |-> <<>>, info |-> info, total_saved |-> 0, raised |-> FALSE,
     write_failed |-> FALSE, info_failed |-> FALSE]

\* "return 0" of lines 85 and 92: nothing is written, no game is saved
EarlyReturn(bucket_files, info) ==
    [files |-> bucket_files, info |-> info, total_saved |-> 0, raised |-> FALSE,
     write_failed |-> FALSE, info_failed |-> FALSE]

\* save_pgn_files(pgn_list, platform, player_name, fide_id, is_active) on the bucket
\* files of the account and player_info.json of the player:
\*   [files, info, total_saved, raised, write_failed, info_failed]
\* faults: [dir, write, write_k, info]
save_pgn_files(bucket_files, info, pgn_list, platform, is_active, today, timestamp, faults) ==
    IF pgn_list = <<>> /\ is_active
    THEN EarlyReturn(bucket_files, info)
    ELSE IF faults.dir /\ CreatesDirectory(info, platform)
    THEN [files |-> bucket_files, info |-> info, total_saved |-> 0, raised |-> TRUE,
          write_failed |-> FALSE, info_failed |-> FALSE]
    ELSE LET info1 == get_player_directory(info, platform)
         IN IF pgn_list = <<>> /\ ~is_active
            THEN EarlyReturn(bucket_files, info1)
            ELSE LET by_date == GamesByDate(pgn_list, today, [keys |-> <<>>, games |-> <<>>])
                     w == WriteBuckets(bucket_files, by_date, by_date.keys, faults,
                                       [saved |-> 0, failed |-> FALSE])
                     info2 == IF faults.info THEN info1
                              ELSE [info1 EXCEPT !.platforms[platform] =
                                      UpdateSummary(@, w.saved, is_active, timestamp)]
                 IN [files |-> w.files, info |-> info2, total_saved |-> w.saved,
                     raised |-> FALSE, write_failed |-> w.failed,
                     info_failed |-> faults.info]

----------------------------------------------------------------------------
(* Metadata Store: utils/db_manager.py *)

\* mutant of UpdateAccount: an attempt that is not a success leaves is_active alone
UpdateAccountKeepActive(row, status, timestamp, games_count) ==
    [row EXCEPT !.is_active = (status = "success") \/ @,
                !.last_update = timestamp,
                !.total_games = @ + games_count]

\* the UPDATE player_accounts of log_collection (lines 269-273)
UpdateAccount(row, status, timestamp, games_count) ==
    [row EXCEPT !.is_active = (status = "success"),
                !.last_update = timestamp,
                !.total_games = @ + games_count]

\* the row INSERTed INTO collection_logs (lines 262-266)
LogRow(fide_id, platform, time_period, games_count, time_controls, status, error_message, timestamp) ==
    [fide_id |-> fide_id, platform |-> platform, time_period |-> time_period,
     games_count |-> games_count, time_controls |-> time_controls,
     status |-> status, error_message |-> error_message, timestamp |-> timestamp]

\* mutant of log_collection: the new row takes the place of the rows logged before
log_collection_replace(logs, accounts, fide_id, platform, time_period, games_count, time_controls, status, error_message, timestamp, db_fault) ==
    IF db_fault THEN [logs |-> logs, accounts |-> accounts, ok |-> FALSE]
    ELSE [logs |-> <<LogRow(fide_id, platform, time_period, games_count,
                            time_controls, status, error_message, timestamp)>>,
          accounts |-> IF <<fide_id, platform>> \in DOMAIN accounts
                       THEN [accounts EXCEPT ![<<fide_id, platform>>] =
                               UpdateAccount(@, status, timestamp, games_count)]
                       ELSE accounts,
          ok |-> TRUE]

\* mutant of log_collection: every statement is committed on its own, and the
\* failure strikes the UPDATE after the INSERT was stored
log_collection_autocommit(logs, accounts, fide_id, platform, time_period, games_count, time_controls, status, error_message, timestamp, db_fault) ==
    [logs |-> Append(logs, LogRow(fide_id, platform, time_period, games_count,
                                  time_controls, status, error_message, timestamp)),
     accounts |-> IF <<fide_id, platform>> \in DOMAIN accounts /\ ~db_fault
                  THEN [accounts EXCEPT ![<<fide_id, platform>>] =
                          UpdateAccount(@, status, timestamp, games_count)]
                  ELSE accounts,
     ok |-> ~db_fault]

\* DatabaseManager.log_collection: [logs, accounts, ok]; with db_fault an
\* exception is raised before the commit and nothing is stored
log_collection(logs, accounts, fide_id, platform, time_period, games_count, time_controls, status, error_message, timestamp, db_fault) ==
    IF db_fault THEN [logs |-> logs, accounts |-> accounts, ok |-> FALSE]
    ELSE [logs |-> Append(logs, LogRow(fide_id, platform, time_period, games_count,
                                       time_controls, status, error_message, timestamp)),
          accounts |-> IF <<fide_id, platform>> \in DOMAIN accounts
                       THEN [accounts EXCEPT ![<<fide_id, platform>>] =
                               UpdateAccount(@, status, timestamp, games_count)]
                       ELSE accounts,
          ok |-> TRUE]

----------------------------------------------------------------------------
(* Metadata Store, the roster: DatabaseManager.import_player_data          *)
(*                                                                         *)
(* Table players is a function from fide_id (PRIMARY KEY) to the row, table *)
(* player_accounts a function from (fide_id, platform) (UNIQUE) to the row. *)
(* A DataFrame is the sequence of its rows; a cell is NaN or a value.       *)

NaN == "nan"
Null == "NULL"

\* "row.get(c) if c in row and not pd.isna(row.get(c)) else None" (lines 119-122)
NullIfNaN(v) == IF v = NaN THEN Null ELSE v

\* the row a DataFrame row stores in table player_rows (lines 130-140); is_active
\* takes DEFAULT 1 on INSERT and is kept by the UPDATE
PlayerRow(player_rows, row) ==
    [name |-> row.name, rating |-> NullIfNaN(row.rating), title |-> NullIfNaN(row.title),
     federation |-> NullIfNaN(row.federation), birth_year |-> NullIfNaN(row.birth_year),
     is_active |-> IF row.fide_id \in DOMAIN player_rows
                   THEN player_rows[row.fide_id].is_active ELSE TRUE]

\* mutant of UpsertPlayer: a known fide_id keeps the row it has
UpsertPlayerKeepKnown(player_rows, row) ==
    [f \in (DOMAIN player_rows) \cup {row.fide_id} |->
        IF f \in DOMAIN player_rows THEN player_rows[f] ELSE PlayerRow(player_rows, row)]

\* the SELECT, then UPDATE or INSERT, of lines 125-140
UpsertPlayer(player_rows, row) ==
    [f \in (DOMAIN player_rows) \cup {row.fide_id} |->
        IF f = row.fide_id THEN PlayerRow(player_rows, row) ELSE player_rows[f]]

\* mutant of _update_player_account: INSERT OR REPLACE, a known account is
\* written anew with the defaults
_update_player_account_replace(accounts, fide_id, platform, username) ==
    [a \in (DOMAIN accounts) \cup {<<fide_id, platform>>} |->
        IF a = <<fide_id, platform>>
        THEN [username |-> username, is_active |-> TRUE, last_update |-> 0,
              total_games |-> 0]
        ELSE accounts[a]]

\* DatabaseManager._update_player_account (lines 166-185); last_update NULL is 0
_update_player_account(accounts, fide_id, platform, username) ==
    IF <<fide_id, platform>> \in DOMAIN accounts
    THEN [accounts EXCEPT ![<<fide_id, platform>>].username = username]
    ELSE [a \in (DOMAIN accounts) \cup {<<fide_id, platform>>} |->
            IF a = <<fide_id, platform>>
            THEN [username |-> username, is_active |-> TRUE, last_update |-> 0,
                  total_games |-> 0]
            ELSE accounts[a]]

\* "Handle player accounts" (lines 143-147) for one DataFrame row
ImportAccounts(accounts, row) ==
    LET cc == IF row.chesscom_username # NaN
              THEN _update_player_account(accounts, row.fide_id, "chess.com",
                                          row.chesscom_username)
              ELSE accounts
    IN IF row.lichess_username # NaN
       THEN _update_player_account(cc, row.fide_id, "lichess", row.lichess_username)
       ELSE cc

RECURSIVE ImportRows(_, _, _)
\* the loop of lines 114-147 on the open transaction
ImportRows(player_rows, accounts, df) ==
    IF df = <<>> THEN [players |-> player_rows, accounts |-> accounts]
    ELSE ImportRows(UpsertPlayer(player_rows, Head(df)), ImportAccounts(accounts, Head(df)),
                    Tail(df))

\* DatabaseManager.import_player_data: [player_rows, accounts, ok].  With db_fault a
\* statement or the commit raises: nothing is committed and False is returned.
import_player_data(player_rows, accounts, df, db_fault) ==
    IF db_fault THEN [players |-> player_rows, accounts |-> accounts, ok |-> FALSE]
    ELSE LET t == ImportRows(player_rows, accounts, df)
         IN [players |-> t.players, accounts |-> t.accounts, ok |-> TRUE]

----------------------------------------------------------------------------

(* Metadata Store, the scheduled tasks: save_scheduled_task and            *)
(* delete_scheduled_task.  Table scheduled_tasks is a function from job_id  *)
(* (PRIMARY KEY) to the row.  A JSON column is [null, items]: SQL NULL or   *)
(* the text of json.dumps of the list items.                                *)

JsonNull == [null |-> TRUE, items |-> <<>>]

\* json.dumps(list)
JsonDumps(list) == [null |-> FALSE, items |-> list]

\* "json.dumps(time_controls) if time_controls else None" (line 314)
JsonDumpsOrNull(list) == IF list = <<>> THEN JsonNull ELSE JsonDumps(list)

\* the row written by the UPDATE or the INSERT of lines 320-334
TaskRow(fide_id, platforms, day_of_month, hour, time_controls, max_games) ==
    [fide_id |-> fide_id, platforms |-> JsonDumps(platforms),
     day_of_month |-> day_of_month, hour |-> hour,
     time_controls |-> JsonDumpsOrNull(time_controls), max_games |-> max_games,
     is_active |-> TRUE]

\* mutant of save_scheduled_task: the row is INSERTed without the SELECT, and
\* the PRIMARY KEY rejects a job_id that has a row
save_scheduled_task_insert(tasks, job_id, fide_id, platforms, day_of_month, hour, time_controls, max_games, db_fault) ==
    IF db_fault \/ job_id \in DOMAIN tasks THEN [tasks |-> tasks, ok |-> FALSE]
    ELSE [tasks |-> [j \in (DOMAIN tasks) \cup {job_id} |->
                        IF j = job_id
                        THEN TaskRow(fide_id, platforms, day_of_month, hour,
                                     time_controls, max_games)
                        ELSE tasks[j]],
          ok |-> TRUE]

\* DatabaseManager.save_scheduled_task: [tasks, ok]
save_scheduled_task(tasks, job_id, fide_id, platforms, day_of_month, hour, time_controls, max_games, db_fault) ==
    IF db_fault THEN [tasks |-> tasks, ok |-> FALSE]
    ELSE [tasks |-> [j \in (DOMAIN tasks) \cup {job_id} |->
                        IF j = job_id
                        THEN TaskRow(fide_id, platforms, day_of_month, hour,
                                     time_controls, max_games)
                        ELSE tasks[j]],
          ok |-> TRUE]

\* DatabaseManager.delete_scheduled_task: [tasks, ok]; the DELETE of a job_id
\* with no row deletes nothing and succeeds
delete_scheduled_task(tasks, job_id, db_fault) ==
    IF db_fault THEN [tasks |-> tasks, ok |-> FALSE]
    ELSE [tasks |-> [j \in (DOMAIN tasks) \ {job_id} |-> tasks[j]], ok |-> TRUE]

\* get_scheduled_tasks: the job_ids of the rows with is_active = 1 that JOIN a
\* row of players (lines 355-372)
ListedTasks(tasks, players_table) ==
    {j \in DOMAIN tasks : tasks[j].is_active /\ tasks[j].fide_id \in DOMAIN players_table}

----------------------------------------------------------------------------
(* Recurrence Scheduler: utils/scheduler.py on the BackgroundScheduler of   *)
(* the session (app.py:32-34).  The scheduler keeps its jobs in memory: a   *)
(* function from job id to the job.  Time is counted in hours; the cron     *)
(* trigger (day, hour, minute 0) fires once per month.                      *)

\* hours of one day and days of one month of the model's calendar
HoursPerDay == 2
DaysPerMonth == 2

HoursPerMonth == HoursPerDay * DaysPerMonth

\* misfire_grace_time=3600 (line 153), in hours
MisfireGraceTime == 1

\* f"collection_{fide_id}" (line 151)
JobId(fide_id) == <<"collection_", fide_id>>

\* the hour of the month at which the trigger cron(day, hour, minute=0) fires
TriggerOffset(day_of_month, hour) == (day_of_month - 1) * HoursPerDay + hour

\* the first firing instant of the trigger that is not before instant t
NextFireTime(day_of_month, hour, t) ==
    LET off == TriggerOffset(day_of_month, hour)
        month == t \div HoursPerMonth
    IN IF month * HoursPerMonth + off >= t
       THEN month * HoursPerMonth + off
       ELSE (month + 1) * HoursPerMonth + off

\* scheduler.add_job(..., id=..., replace_existing=True, ...) (lines 145-154)
\* in hour t: the job takes the place of a job with the same id, and first
\* runs at the next firing instant of its trigger
AddJob(job_store, job_id, task, day_of_month, hour, t) ==
    [j \in (DOMAIN job_store) \cup {job_id} |->
        IF j = job_id
        THEN [task |-> task, day_of_month |-> day_of_month, hour |-> hour,
              next_run_time |-> NextFireTime(day_of_month, hour, t + 1)]
        ELSE job_store[j]]

\* schedule_scraping_task: [jobs, tasks, job_id]; task is what the closure
\* collection_task holds
schedule_scraping_task(job_store, tasks, task, day_of_month, hour, t, db_fault) ==
    [jobs |-> AddJob(job_store, JobId(task.fide_id), task, day_of_month, hour, t),
     tasks |-> save_scheduled_task(tasks, JobId(task.fide_id), task.fide_id,
                                   task.platforms, day_of_month, hour,
                                   task.time_controls, task.max_games, db_fault).tasks,
     job_id |-> JobId(task.fide_id)]

----------------------------------------------------------------------------

(* The roster and the remote services the runs draw their inputs from *)

FideIds == {"f1"}
Platforms == {"chess.com", "lichess"}

Ann == <<"a", "n", "n">>
Bob == <<"b", "o", "b">>

\* the name column of the roster
PlayerName(fide_id) == Ann

\* the (fide_id, platform) pairs whose username column is not NaN
Accounts == {<<"f1", "chess.com">>, <<"f1", "lichess">>}

DateChars(y, m, d) == Digits(y, 4) \o <<DotCh>> \o Digits(m, 2) \o <<DotCh>> \o Digits(d, 2)

MkGame(id, date, event, tc, white, black) ==
    [ok |-> TRUE, id |-> id, date |-> date, event |-> event, tc |-> tc,
     white |-> white, black |-> black, source |-> "", wfid |-> "", bfid |-> "",
     variant |-> ""]

\* a "pgn" field holding no game: read_game returns None
EmptyText ==
    [ok |-> FALSE, id |-> "", date |-> NoDate, event |-> NoEvent, tc |-> NoTag,
     white |-> <<>>, black |-> <<>>, source |-> "", wfid |-> "", bfid |-> "",
     variant |-> ""]

GameDec == MkGame("g1", DateChars(2023, 12, 20), <<"Live", "Chess">>, <<600>>, Ann, Bob)
GameJan == MkGame("g2", DateChars(2024, 1, 5), <<"Live", "Chess">>, <<180, PlusTok, 2>>, Bob, Ann)
GameJanNoDate == MkGame("g3", NoDate, NoEvent, <<60>>, Ann, Bob)
GameMar == MkGame("g4", DateChars(2024, 3, 2), <<"Daily">>, <<1, SlashTok, 86400>>, Ann, Bob)

JsonGame(pgn) == [has_pgn |-> TRUE, pgn |-> pgn]

\* the monthly archives of the Chess.com account, oldest first
AllArchives(status) ==
    << [year |-> 2023, month |-> 12, status |-> status, games |-> <<JsonGame(GameDec)>>],
       [year |-> 2024, month |-> 1, status |-> status,
        games |-> <<JsonGame(GameJan), JsonGame(EmptyText), JsonGame(GameJanNoDate)>>],
       [year |-> 2024, month |-> 3, status |-> status, games |-> <<JsonGame(GameMar)>>] >>

\* an account whose only archive holds a "pgn" field with no game
OnlyEmptyText ==
    << [year |-> 2024, month |-> 1, status |-> 200, games |-> <<JsonGame(EmptyText)>>] >>

\* the archives that exist on a given day
ArchivesAt(today, status) ==
    LET Exists(a) == a.year < today.year \/ (a.year = today.year /\ a.month <= today.month)
    IN SelectSeq(AllArchives(status), Exists)

\* the answers of the Chess.com service a run may meet
ChessComServers(today) ==
    {[index |-> idx, archives |-> ArchivesAt(today, st)] :
        idx \in {<<200>>, <<404>>, <<500>>, <<0>>}, st \in {200}}
    \cup {[index |-> <<200>>, archives |-> ArchivesAt(today, 500)],
          [index |-> <<200>>, archives |-> OnlyEmptyText]}

\* the games of the Lichess account, in streaming order
AllLichessGames ==
    << [played |-> [year |-> 2023, month |-> 12, day |-> 20], perf |-> "rapid", pgn |-> GameDec],
       [played |-> [year |-> 2024, month |-> 1, day |-> 5], perf |-> "blitz", pgn |-> GameJan],
       [played |-> [year |-> 2024, month |-> 3, day |-> 2], perf |-> "correspondence",
        pgn |-> GameMar] >>

LichessServers(today) ==
    LET Exists(g) == DateLeq(g.played, today)
    IN {[stream |-> st, games |-> SelectSeq(AllLichessGames, Exists)] :
          st \in {<<200>>, <<404>>, <<500>>}}

Servers(platform, today) ==
    IF platform = "chess.com" THEN ChessComServers(today) ELSE LichessServers(today)

\* the first answer that is not 429 (0 when there is none)
RECURSIVE FinalResponse(_)
FinalResponse(responses) ==
    IF responses = <<>> THEN 0
    ELSE IF Head(responses) = 429 THEN FinalResponse(Tail(responses))
    ELSE Head(responses)

\* the run met a transport failure: an HTTP error other than 404/403/429 or a
\* network exception, on the index (or stream) or on a bucket it requested
TransportError(platform, server, requested) ==
    \/ FinalResponse(IF platform = "chess.com" THEN server.index ELSE server.stream)
          \notin {200, 404, 403}
    \/ /\ platform = "chess.com"
       /\ \E i \in 1..Len(server.archives) :
            /\ \E j \in 1..Len(requested) :
                  /\ requested[j].year = server.archives[i].year
                  /\ requested[j].month = server.archives[i].month
            /\ server.archives[i].status \notin {200, 404, 403, 429}

\* the adapter of a platform (the clients are chosen by platform in both paths)
GetPlayerGames(platform, server, today, time_period, max_games, time_controls) ==
    IF platform = "chess.com"
    THEN ChessComGetPlayerGames(server, today, time_period, max_games, time_controls)
    ELSE LichessGetPlayerGames(server, today, time_period, max_games, time_controls)

----------------------------------------------------------------------------
(* Collection Orchestrator: one collection cycle of one (player, platform) *)
(* pair, as run by collection_task (scheduler.py) and by Start Collection  *)
(* (app.py)                                                                *)

NoFaults == [dir |-> FALSE, write |-> "none", write_k |-> 0, info |-> FALSE, db |-> FALSE]

\* the failures of the file system and of the database one cycle may meet
Faults ==
    {NoFaults,
     [NoFaults EXCEPT !.dir = TRUE],
     [NoFaults EXCEPT !.write = "open"],
     [NoFaults EXCEPT !.write = "write"],
     [NoFaults EXCEPT !.info = TRUE],
     [NoFaults EXCEPT !.db = TRUE]}

\* games_count handed to log_collection: len(processed_games) in collection_task
\* (scheduler.py:75), len(games) in Start Collection (app.py:271)
GamesCount(path, games, processed_games) ==
    IF path = "scheduled" THEN Len(processed_games) ELSE Len(games)

\* the body of the try block and its except branch for one pair
Cycle(path, fide_id, platform, time_period, max_games, time_controls, server, faults) ==
    \E fetch \in {GetPlayerGames(platform, server, Today, time_period, max_games,
                                 time_controls)} :
    \E processed_games \in
          {IF fetch.games # <<>>
           THEN process_pgn_data(fetch.games, platform, PlayerName(fide_id), fide_id)
           ELSE <<>>} :
    \E saved \in {save_pgn_files(files[<<fide_id, platform>>], player_info[fide_id],
                                 processed_games, platform, Len(fetch.games) > 0,
                                 Today, now, faults)} :
    \E logged \in
          {IF saved.raised
           THEN log_collection(collection_logs, player_accounts, fide_id, platform,
                               time_period, 0, time_controls, "error", TRUE, now,
                               faults.db)
           ELSE log_collection(collection_logs, player_accounts, fide_id, platform,
                               time_period,
                               GamesCount(path, fetch.games, processed_games),
                               time_controls,
                               IF Len(fetch.games) > 0 THEN "success" ELSE "inactive",
                               FALSE, now, faults.db)} :
       /\ files' = [files EXCEPT ![<<fide_id, platform>>] = saved.files]
       /\ player_info' = [player_info EXCEPT ![fide_id] = saved.info]
       /\ collection_logs' = logged.logs
       /\ player_accounts' = logged.accounts
       /\ last' = [op |-> path, n |-> last.n + 1, acct |-> <<fide_id, platform>>,
                   at |-> now,
                   fetched |-> Len(fetch.games), pgn_list |-> processed_games,
                   is_active |-> Len(fetch.games) > 0,
                   transport_error |-> TransportError(platform, server, fetch.requested),
                   write_failed |-> saved.write_failed,
                   info_failed |-> saved.info_failed, raised |-> saved.raised,
                   total_saved |-> saved.total_saved, logged |-> logged.ok,
                   prev_files |-> files[<<fide_id, platform>>],
                   prev_entry |-> player_info[fide_id].platforms[platform],
                   prev_row |-> player_accounts[<<fide_id, platform>>]]

\* Start Collection (app.py:223-338), one selected player and platform
ManualCollection ==
    /\ last.n < MaxAttempts
    /\ \E acct \in Accounts, time_period \in {"Last month", "All available"},
          faults \in Faults :
         \E server \in Servers(acct[2], Today) :
            Cycle("manual", acct[1], acct[2], time_period, 0, <<>>, server, faults)
    /\ UNCHANGED <<now, fq, fr, cq, cr, nq, nr, rosterVars>>

\* collection_task (scheduler.py:44-142), one configured platform of the task
ScheduledCollection ==
    /\ last.n < MaxAttempts
    /\ \E acct \in Accounts, faults \in Faults :
         \E server \in Servers(acct[2], Today) :
            Cycle("scheduled", acct[1], acct[2], "Last month", 0, <<>>, server, faults)
    /\ UNCHANGED <<now, fq, fr, cq, cr, nq, nr, rosterVars>>

\* time passes
Tick ==
    /\ now < Len(Instants)
    /\ now' = now + 1
    /\ UNCHANGED <<files, player_info, player_accounts, collection_logs, last,
                   fq, fr, cq, cr, nq, nr, rosterVars>>

\* the fide_ids and the accounts a roster file may name
RosterFideIds == {"f1", "f2"}
RosterAccounts == RosterFideIds \X Platforms

\* one row of a roster DataFrame
RosterRow(fide_id, name, rating, title, federation, birth_year, chesscom_username, lichess_username) ==
    [fide_id |-> fide_id, name |-> name, rating |-> rating, title |-> title,
     federation |-> federation, birth_year |-> birth_year,
     chesscom_username |-> chesscom_username, lichess_username |-> lichess_username]

\* the roster imported before any collection
Roster ==
    << RosterRow("f1", Ann, "2850", "GM", "NOR", "1990", "ann_cc", "ann_li"),
       RosterRow("f2", Bob, NaN, NaN, "USA", NaN, "bob_cc", NaN) >>

ImportedRoster == import_player_data(<<>>, <<>>, Roster, FALSE)

\* no operation on the metadata store yet, no firing yet
NoOperation == [op |-> "none", n |-> 0]
NoFiring == [job_id |-> <<>>, run_time |-> 0, at |-> 0, outcome |-> "none"]

\* the two threads that run a collection cycle: the script thread of the page
\* (Start Collection) and a worker thread of the BackgroundScheduler
Runs == {"manual", "scheduled"}

\* no cycle begun yet in either thread; acct is the account the thread collects
NoRuns ==
    [r \in Runs |->
        [pc |-> "idle", acct |-> <<"f1", "chess.com">>, games |-> <<>>,
         pgn_list |-> <<>>, keys |-> <<>>, pos |-> 0, total_saved |-> 0,
         loaded |-> <<>>]]

\* no call of _make_request yet
NoRequest == [pc |-> "idle"]

\* no batch run yet
NoBatch == [done |-> FALSE]

NoAttempt ==
    [op |-> "none", n |-> 0, acct |-> <<"", "">>, at |-> 0,
     fetched |-> 0, pgn_list |-> <<>>,
     is_active |-> FALSE, transport_error |-> FALSE, write_failed |-> FALSE,
     info_failed |-> FALSE,
     raised |-> FALSE, total_saved |-> 0, logged |-> FALSE, prev_files |-> <<>>,
     prev_entry |-> NoEntry,
     prev_row |-> [username |-> "", is_active |-> TRUE, last_update |-> 0,
                   total_games |-> 0]]

\* no call made yet, nothing returned yet
NoCall == [done |-> FALSE]
NoReturn == [done |-> FALSE]

\* the state after the roster is imported (db_manager.py:182-185) and before
\* any collection: no archive, no player directory, no log row
Init ==
    /\ files = [a \in Accounts |-> <<>>]
    /\ player_info = [f \in FideIds |->
                        [exists |-> FALSE, dirs |-> {},
                         platforms |-> [p \in Platforms |-> NoEntry]]]
    /\ player_accounts = ImportedRoster.accounts
    /\ collection_logs = <<>>
    /\ now = 1
    /\ last = NoAttempt
    /\ fq = NoCall /\ fr = NoReturn /\ cq = NoCall /\ cr = NoReturn
    /\ nq = NoCall /\ nr = NoReturn
    /\ players = ImportedRoster.players
    /\ runs = NoRuns
    /\ batch = NoBatch
    /\ rq = NoRequest
    /\ scheduled_tasks = <<>>
    /\ jobs = <<>>
    /\ job_ids = <<>>
    /\ proc = "running"
    /\ clock = 0
    /\ fired = NoFiring
    /\ so = NoOperation

Next == ManualCollection \/ ScheduledCollection \/ Tick

Spec == Init /\ [][Next]_vars

----------------------------------------------------------------------------
(* Claims about the archive store and the account summary, checked under   *)
(* Spec.  They speak of the last collection cycle through the record last. *)

Attempted == last.op # "none"
LastEntry == player_info[last.acct[1]].platforms[last.acct[2]]
LastRow == player_accounts[last.acct]
LastFiles == files[last.acct]
NoFaultStruck ==
    ~last.raised /\ ~last.write_failed /\ ~last.info_failed /\ last.logged

\* C1: a cycle that hands save_pgn_files an empty game list, with the account
\* flagged active or inactive, creates, rewrites and deletes no bucket file of
\* the account: the bucket files are those from before the cycle.
C1_EmptyCycleKeepsBuckets ==
    (Attempted /\ last.pgn_list = <<>>) => LastFiles = last.prev_files

\* a cycle whose fetch returned no game ran on an account with archived games
C1_Witness ==
    /\ Attempted /\ last.fetched = 0 /\ last.pgn_list = <<>> /\ ~last.is_active
    /\ \E k \in DOMAIN last.prev_files : last.prev_files[k] # <<>>
    /\ LastFiles = last.prev_files

\* C2: a cycle that returns zero games because of a transport error leaves
\* is_active of the account as it was before the attempt.
C2_TransportErrorKeepsActive ==
    (Attempted /\ last.transport_error /\ last.fetched = 0)
        => LastRow.is_active = last.prev_row.is_active

\* the year and month of a complete Date header "YYYY.MM.DD", as a bucket key
DateBucket(date) == SubSeq(date, 1, 4) \o <<DashCh>> \o SubSeq(date, 6, 7)

\* C3: every archived game whose Date header is complete lies in the bucket of
\* the year and month of that header (only a game with a missing or partial
\* date lies in the bucket of the collection date).
C3_BucketFromDateHeader ==
    \A a \in Accounts : \A k \in DOMAIN files[a] : \A i \in 1..Len(files[a][k]) :
        LET date == files[a][k][i].pgn.date
        IN ~ContainsCh(date, QuestCh) => k = DateBucket(date)

\* the games of the last cycle that save_pgn_files assigns to bucket k, in input order
LastGamesOf(k) ==
    LET Belongs(g) == g.ok /\ YearMonthOf(g, Instants[last.at]) = k
    IN SelectSeq(last.pgn_list, Belongs)

\* C4: after a cycle whose bucket writes succeed, every bucket that received a
\* game holds exactly the games of this cycle assigned to it, in input order,
\* each followed by a blank line, and nothing of its prior content; every other
\* bucket is as it was before the cycle.
C4_BucketWriteReplaces ==
    (Attempted /\ ~last.raised /\ ~last.write_failed /\ last.pgn_list # <<>>) =>
        /\ DOMAIN last.prev_files \subseteq DOMAIN LastFiles
        /\ \A k \in DOMAIN LastFiles :
              IF LastGamesOf(k) # <<>>
              THEN /\ Len(LastFiles[k]) = Len(LastGamesOf(k))
                   /\ \A i \in 1..Len(LastFiles[k]) :
                         /\ LastFiles[k][i].pgn = LastGamesOf(k)[i]
                         /\ LastFiles[k][i].trailer = "\n\n"
              ELSE k \in DOMAIN last.prev_files /\ LastFiles[k] = last.prev_files[k]

\* a bucket that held more games before the cycle was rewritten with this cycle's games
C4_Witness ==
    /\ Attempted /\ ~last.raised /\ ~last.write_failed /\ last.pgn_list # <<>>
    /\ \E k \in DOMAIN last.prev_files :
          /\ LastFiles[k] # <<>>
          /\ Len(LastFiles[k]) < Len(last.prev_files[k])

\* C5: when a bucket write fails during an attempt, the rolling summary of the
\* account is not updated by that attempt.
C5_FailedWriteLeavesSummary ==
    (Attempted /\ last.write_failed) => LastEntry = last.prev_entry

\* C6: an attempt changes total_games, in the summary file and in the
\* PlatformAccount row, only by adding the count newly saved (met by no file or
\* database failure).
C6_TotalGamesAddsSaved ==
    (Attempted /\ NoFaultStruck) =>
        /\ LastEntry.total_games = last.prev_entry.total_games + last.total_saved
        /\ LastRow.total_games = last.prev_row.total_games + last.total_saved

\* C7: every attempt (met by no file or database failure), also one whose fetch
\* returned zero games, sets last_update of the summary to the attempt's time
\* and is_active to whether the fetch returned at least one game.
C7_SummaryUpdatedEveryAttempt ==
    (Attempted /\ NoFaultStruck) =>
        /\ LastEntry.present
        /\ LastEntry.last_update = last.at
        /\ LastEntry.is_active = (last.fetched > 0)

----------------------------------------------------------------------------
(* The source adapters on their own: get_player_games called with every    *)
(* time_period, several max_games and time_controls, on several days,      *)
(* against an account with games in six months                             *)

\* the days on which get_player_games is called
FetchDays ==
    {[year |-> 2024, month |-> 1, day |-> 15],
     [year |-> 2024, month |-> 3, day |-> 10],
     [year |-> 2024, month |-> 6, day |-> 30],
     [year |-> 2024, month |-> 12, day |-> 31]}

\* the choices of the "Time Period" select box (app.py) and of the API
TimePeriods ==
    {"Last month", "Last 3 months", "Last 6 months", "Last year", "All available"}

\* the values of max_games the calls use
MaxGamesChoices == {0, 2, 5}

\* the values of time_controls the calls use
FetchFilters == {<<>>, <<"blitz">>, <<"rapid", "bullet">>, <<"other">>}

\* the k-th game of a month: bullet, blitz, rapid and classical in turn, the
\* fifth a Chess960 game on a blitz clock
FetchGame(y, m, k) ==
    [MkGame(<<"a", "b", "c", "d", "e">>[k], DateChars(y, m, 5 * k),
            IF k = 3 THEN <<"Rapidplay">> ELSE <<"Live", "Chess">>,
            << <<60, 300, 600, 1800, 300>>[k] >>, Ann, Bob)
        EXCEPT !.variant = IF k = 5 THEN "Chess960" ELSE ""]

\* the months in which the account played, oldest first, and the games of each
FetchMonths ==
    << [year |-> 2023, month |-> 11, n |-> 2], [year |-> 2023, month |-> 12, n |-> 4],
       [year |-> 2024, month |-> 1, n |-> 5],  [year |-> 2024, month |-> 2, n |-> 5],
       [year |-> 2024, month |-> 3, n |-> 2],  [year |-> 2024, month |-> 12, n |-> 1] >>

MonthLeq(a, b) == a.year < b.year \/ (a.year = b.year /\ a.month <= b.month)

\* the archive index of the Chess.com account on a given day
FetchArchiveList(today) ==
    LET Exists(mo) == MonthLeq(mo, today)
        months == SelectSeq(FetchMonths, Exists)
    IN [i \in 1..Len(months) |->
          [year |-> months[i].year, month |-> months[i].month, status |-> 200,
           games |-> [k \in 1..months[i].n |->
                        JsonGame(FetchGame(months[i].year, months[i].month, k))]]]

\* the archives with the request of the k-th answered by status st
WithBucketStatus(archives, k, st) ==
    [i \in 1..Len(archives) |->
        IF i = k THEN [archives[i] EXCEPT !.status = st] ELSE archives[i]]

\* the answers of the Chess.com service: every bucket served and the index
\* answered in several ways, or the index served and one bucket (the second or
\* the last but one) not served.  retry_after is the Retry-After header of a
\* 429 answer (0: the header is absent)
FetchChessComServers(today) ==
    {[index |-> idx, archives |-> FetchArchiveList(today), retry_after |-> ra] :
        idx \in {<<200>>, <<429, 200>>, <<429, 429, 200>>, <<404>>, <<403>>, <<500>>},
        ra \in {0, 5}}
    \cup {[index |-> <<200>>,
           archives |-> WithBucketStatus(FetchArchiveList(today), k, st),
           retry_after |-> 0] :
            k \in {2, Len(FetchArchiveList(today)) - 1}, st \in {404, 403, 500, 429, 0}}

RECURSIVE FlattenGames(_)
FlattenGames(archives) ==
    IF archives = <<>> THEN <<>>
    ELSE LET a == Head(archives)
         IN [k \in 1..Len(a.games) |->
               [played |-> [year |-> a.year, month |-> a.month, day |-> 5 * k],
                perf |-> <<"bullet", "blitz", "rapid", "classical", "chess960">>[k],
                pgn |-> a.games[k].pgn]]
            \o FlattenGames(Tail(archives))

\* the same games on the Lichess account, in streaming order
FetchLichessServers(today) ==
    {[stream |-> st, games |-> FlattenGames(FetchArchiveList(today)), retry_after |-> ra] :
        st \in {<<200>>, <<429, 200>>, <<404>>, <<403>>, <<500>>}, ra \in {0, 5}}

\* request_delay of an adapter instance (the default of __init__) and the
\* default of headers.get('Retry-After', 60)
RequestDelay == 1
DefaultRetryAfter == 60

\* the events of a call: time.sleep(secs) and requests.get of a target (<<>>:
\* the archive index or the game stream, <<year, month>>: a bucket) with the
\* status code answered (0: no answer)
SleepEvent(secs) == [kind |-> "sleep", secs |-> secs, target |-> <<>>, status |-> 0]
GetEvent(target, status) == [kind |-> "get", secs |-> 0, target |-> target, status |-> status]

\* int(e.response.headers.get('Retry-After', 60))
RetryAfter(server) ==
    IF server.retry_after = 0 THEN DefaultRetryAfter ELSE server.retry_after

RECURSIVE MakeRequestEvents(_, _)
\* the sleeps and requests of _make_request (both clients): the delay, the
\* request and, on a 429 answer, the sleep of Retry-After and the call again
MakeRequestEvents(responses, server) ==
    IF responses = <<>> THEN <<SleepEvent(RequestDelay), GetEvent(<<>>, 0)>>
    ELSE <<SleepEvent(RequestDelay), GetEvent(<<>>, Head(responses))>>
         \o (IF Head(responses) = 429
             THEN <<SleepEvent(RetryAfter(server))>>
                  \o MakeRequestEvents(Tail(responses), server)
             ELSE <<>>)

RECURSIVE BucketEvents(_)
\* the requests and sleeps of the bucket loops (lines 209-231 and 254-277): the
\* sleep of line 228/274 is inside the try block, after the answer is read
BucketEvents(archives) ==
    IF archives = <<>> THEN <<>>
    ELSE LET a == Head(archives)
         IN <<GetEvent(<<a.year, a.month>>, a.status)>>
            \o (IF a.status = 200 THEN <<SleepEvent(RequestDelay)>> ELSE <<>>)
            \o BucketEvents(Tail(archives))

\* the events of ChessComClient.get_player_games
ChessComEvents(server, today, time_period) ==
    MakeRequestEvents(server.index, server)
        \o BucketEvents(FilteredArchives(server, today, time_period))

\* the events of LichessClient.get_player_games
LichessEvents(server) == MakeRequestEvents(server.stream, server)

\* one call of ChessComClient.get_player_games
FetchChessCom ==
    /\ ~fq.done
    /\ \E today \in FetchDays, time_period \in TimePeriods,
          max_games \in MaxGamesChoices, time_controls \in FetchFilters :
         \E server \in FetchChessComServers(today) :
            /\ fq' = [done |-> TRUE, platform |-> "chess.com", today |-> today,
                      time_period |-> time_period, max_games |-> max_games,
                      time_controls |-> time_controls, server |-> server]
            /\ \E ret \in {ChessComGetPlayerGames(server, today, time_period,
                                                  max_games, time_controls)} :
                  fr' = [done |-> TRUE, games |-> ret.games, requested |-> ret.requested,
                         trace |-> ChessComEvents(server, today, time_period)]
    /\ UNCHANGED <<files, player_info, player_accounts, collection_logs, now, last,
                   cq, cr, nq, nr, rosterVars>>

\* one call of LichessClient.get_player_games
FetchLichess ==
    /\ ~fq.done
    /\ \E today \in FetchDays, time_period \in TimePeriods,
          max_games \in MaxGamesChoices, time_controls \in FetchFilters :
         \E server \in FetchLichessServers(today) :
            /\ fq' = [done |-> TRUE, platform |-> "lichess", today |-> today,
                      time_period |-> time_period, max_games |-> max_games,
                      time_controls |-> time_controls, server |-> server]
            /\ \E ret \in {LichessGetPlayerGames(server, today, time_period,
                                                 max_games, time_controls)} :
                  fr' = [done |-> TRUE, games |-> ret.games, requested |-> ret.requested,
                         trace |-> LichessEvents(server)]
    /\ UNCHANGED <<files, player_info, player_accounts, collection_logs, now, last,
                   cq, cr, nq, nr, rosterVars>>

NextFetch == FetchChessCom \/ FetchLichess

SpecFetch == Init /\ [][NextFetch]_vars

\* what the call fq returns when it is made with max_games = 0
UnlimitedFetch ==
    GetPlayerGames(fq.platform, fq.server, fq.today, fq.time_period, 0,
                   fq.time_controls)

\* the games the first j bucket requests of the call fq yield
GamesOfFirst(j) ==
    Len(FetchArchives(SubSeq(FilteredArchives(fq.server, fq.today, fq.time_period), 1, j),
                      0, fq.time_controls, [games |-> <<>>, requested |-> <<>>]).games)

\* C8: a call with max_games = N > 0 on a source that yields M games in the
\* window returns the first min(N, M) of them in fetch order, and the monthly
\* adapter requests no bucket after the one that holds the N-th game; a call
\* with max_games = 0 returns all M games.
C8_MaxCountTruncates ==
    fq.done =>
        LET all == UnlimitedFetch.games
            n == IF fq.max_games > 0 /\ fq.max_games < Len(all)
                 THEN fq.max_games ELSE Len(all)
        IN /\ fr.games = SubSeq(all, 1, n)
           /\ (fq.platform = "chess.com" /\ fq.max_games > 0) =>
                 \A j \in 1..(Len(fr.requested) - 1) : GamesOfFirst(j) < fq.max_games

\* C9: a call of the Chess.com adapter with a bounded time_period whose index
\* request is answered requests exactly the archive months from the month of
\* the start date to the month of the end date, both included, oldest first.
C9_WindowMonthsFetched ==
    (/\ fq.done /\ fq.platform = "chess.com"
     /\ WindowDays(fq.time_period) # 0
     /\ MakeRequest(fq.server.index) = "json") =>
        LET start_date == MinusDays(fq.today, WindowDays(fq.time_period))
            InWindow(a) == MonthLeq(start_date, a) /\ MonthLeq(a, fq.today)
            due == SelectSeq(fq.server.archives, InWindow)
        IN fr.requested =
              [i \in 1..Len(due) |-> [year |-> due[i].year, month |-> due[i].month]]

----------------------------------------------------------------------------
(* The time-control filter on its own: _is_matching_time_control called on *)
(* games with every combination of TimeControl tag and Event label below   *)

\* TimeControl values: none, "60", "179", "180", "300+2", "599", "600", "1799",
\* "1800", "-", "1/86400", "60+0", "600+0" and "1800+0"
ClassifyTags ==
    {NoTag, <<60>>, <<179>>, <<180>>, <<300, PlusTok, 2>>, <<599>>, <<600>>,
     <<1799>>, <<1800>>, <<DashTok>>, <<1, SlashTok, 86400>>,
     <<60, PlusTok, 0>>, <<600, PlusTok, 0>>, <<1800, PlusTok, 0>>}

\* Event labels
ClassifyEvents ==
    {NoEvent, <<"Live", "Chess">>, <<"Bullet">>, <<"Blitz">>, <<"Rapidplay">>,
     <<"Classical">>, <<"Daily">>}

\* requested time controls
ClassifyFilters ==
    {<<>>, <<"bullet">>, <<"blitz">>, <<"rapid">>, <<"classical">>, <<"other">>,
     <<"rapid", "blitz">>}

\* one call of ChessComClient._is_matching_time_control
Classify ==
    /\ ~cq.done
    /\ \E tc \in ClassifyTags, event \in ClassifyEvents, time_controls \in ClassifyFilters :
         \E pgn \in {MkGame("g", NoDate, event, tc, Ann, Bob)} :
            /\ cq' = [done |-> TRUE, pgn |-> pgn, time_controls |-> time_controls]
            /\ cr' = [done |-> TRUE,
                      match |-> IsMatchingTimeControl(pgn, time_controls)]
    /\ UNCHANGED <<files, player_info, player_accounts, collection_logs, now, last,
                   fq, fr, nq, nr, rosterVars>>

NextClassify == Classify

SpecClassify == Init /\ [][NextClassify]_vars

\* the category the precedence "tag, then event label, then other" gives a game
\* whose TimeControl value is not of the form "N/seconds"
PrecedenceCategory(pgn) ==
    LET base == IF pgn.tc = NoTag THEN [raised |-> TRUE, v |-> 0]
                ELSE ParseInt(SplitCh(pgn.tc, PlusTok)[1])
    IN IF ~base.raised
       THEN (IF base.v < 180 THEN "bullet"
             ELSE IF base.v < 600 THEN "blitz"
             ELSE IF base.v < 1800 THEN "rapid" ELSE "classical")
       ELSE IF pgn.event # NoEvent /\ EventHas(pgn.event, "bullet") THEN "bullet"
       ELSE IF pgn.event # NoEvent /\ EventHas(pgn.event, "blitz") THEN "blitz"
       ELSE IF pgn.event # NoEvent /\ EventHas(pgn.event, "rapid") THEN "rapid"
       ELSE IF pgn.event # NoEvent /\ (\/ EventHas(pgn.event, "classical")
                                       \/ EventHas(pgn.event, "daily")) THEN "classical"
       ELSE "other"

\* C10: a game passes a non-empty filter exactly when the filter names the one
\* category the precedence gives it: the category of the base seconds of the
\* tag when the tag parses (whatever the event label says), else the keyword of
\* the event label, else "other".
C10_TagThenEventThenOther ==
    (cq.done /\ cq.time_controls # <<>> /\ ~ContainsCh(cq.pgn.tc, SlashTok)) =>
        cr.match = (\E i \in 1..Len(cq.time_controls) :
                       cq.time_controls[i] = PrecedenceCategory(cq.pgn))

\* the category a filter of one name has to hold to accept the game of the call
\* cq, for the four games of the round trip ("none": not one of them)
RoundTripCategory ==
    IF cq.pgn.tc = <<600, PlusTok, 0>> /\ EventGameType(cq.pgn) = "none" THEN "blitz"
    ELSE IF cq.pgn.tc = <<60, PlusTok, 0>> /\ EventGameType(cq.pgn) = "none" THEN "bullet"
    ELSE IF cq.pgn.tc = <<1800, PlusTok, 0>> /\ EventGameType(cq.pgn) = "none" THEN "rapid"
    ELSE IF cq.pgn.tc = NoTag /\ cq.pgn.event = <<"Bullet">> THEN "bullet"
    ELSE "none"

\* C11: a game tagged "600+0" is accepted by the filter <<"blitz">>, one tagged
\* "60+0" by <<"bullet">>, one tagged "1800+0" by <<"rapid">>, a game with no
\* tag and the event label "Bullet" by <<"bullet">>, and each of them is
\* rejected by every filter of one other category.
C11_RoundTripCategories ==
    (cq.done /\ Len(cq.time_controls) = 1 /\ RoundTripCategory # "none") =>
        cr.match = (cq.time_controls[1] = RoundTripCategory)

\* C12: no call of get_player_games, whatever its time_controls (the empty
\* filter included), returns a game whose Variant header names a non-standard
\* rule variant.
C12_VariantsExcluded ==
    fq.done => \A i \in 1..Len(fr.games) : fr.games[i].variant = ""

RECURSIVE PgnOfBuckets(_, _)
\* the texts of the games in the buckets the call requested that were answered
PgnOfBuckets(archives, requested) ==
    IF archives = <<>> THEN <<>>
    ELSE LET a == Head(archives)
             asked == \E j \in 1..Len(requested) :
                          requested[j].year = a.year /\ requested[j].month = a.month
         IN (IF asked /\ a.status = 200
             THEN [i \in 1..Len(a.games) |-> a.games[i].pgn] ELSE <<>>)
            \o PgnOfBuckets(Tail(archives), requested)

\* the games the source offers the call fq, before any time-control filter:
\* those of the answered buckets, or those of the stream since the start date
OfferedGames ==
    IF fq.platform = "chess.com"
    THEN (IF MakeRequest(fq.server.index) = "json"
          THEN PgnOfBuckets(fq.server.archives, fr.requested) ELSE <<>>)
    ELSE LET start_date == MinusDays(fq.today, WindowDays(fq.time_period))
             InWindow(g) == WindowDays(fq.time_period) = 0 \/ DateLeq(start_date, g.played)
             streamed == SelectSeq(fq.server.games, InWindow)
         IN IF LichessMakeRequest(fq.server.stream)
            THEN [i \in 1..Len(streamed) |-> Reexport(streamed[i].pgn)] ELSE <<>>

\* C13: with a non-empty time_controls every returned game of standard chess is
\* of one of the requested categories (also for the filter <<"other">>); with
\* an empty time_controls and no max_games every offered game is returned.
C13_ReturnedGamesMatchFilter ==
    fq.done =>
        /\ fq.time_controls # <<>> =>
              \A i \in 1..Len(fr.games) :
                  fr.games[i].variant = "" =>
                      \E j \in 1..Len(fq.time_controls) :
                          fq.time_controls[j] = PrecedenceCategory(fr.games[i])
        /\ (fq.time_controls = <<>> /\ fq.max_games = 0) => fr.games = OfferedGames

\* C14: every request of a call that is answered 429 is followed at once by a
\* sleep of the server's Retry-After (60 without the header) and then by the
\* same request again, for the archive index, a bucket and the game stream.
C14_RateLimitSleepsAndRetries ==
    fq.done =>
        \A i \in 1..Len(fr.trace) :
            (fr.trace[i].kind = "get" /\ fr.trace[i].status = 429) =>
                /\ i < Len(fr.trace)
                /\ fr.trace[i + 1].kind = "sleep"
                /\ fr.trace[i + 1].secs = RetryAfter(fq.server)
                /\ \E j \in (i + 2)..Len(fr.trace) :
                      /\ fr.trace[j].kind = "get"
                      /\ fr.trace[j].target = fr.trace[i].target
                      /\ \A k \in (i + 1)..(j - 1) : fr.trace[k].kind = "sleep"

\* C17: between any two consecutive requests of a call there is a sleep of at
\* least request_delay.
C17_DelayBetweenRequests ==
    fq.done =>
        \A i \in 1..Len(fr.trace) : \A j \in (i + 1)..Len(fr.trace) :
            (/\ fr.trace[i].kind = "get" /\ fr.trace[j].kind = "get"
             /\ \A k \in (i + 1)..(j - 1) : fr.trace[k].kind = "sleep") =>
                \E k \in (i + 1)..(j - 1) : fr.trace[k].secs >= RequestDelay

\* the service of the call fq with every bucket served
HealthyServer ==
    [fq.server EXCEPT !.archives =
        [i \in 1..Len(fq.server.archives) |-> [fq.server.archives[i] EXCEPT !.status = 200]]]

\* what the call fq returns from that service
HealthyFetch ==
    ChessComGetPlayerGames(HealthyServer, fq.today, fq.time_period, fq.max_games,
                           fq.time_controls)

\* the positions of the buckets whose request is answered by a status of the set
Unserved(statuses) ==
    {i \in 1..Len(fq.server.archives) : fq.server.archives[i].status \in statuses}

\* the games of HealthyFetch that are not in a bucket of the given positions
HealthyGamesWithout(positions) ==
    LET Lost(g) == \E i \in positions : \E k \in 1..Len(fq.server.archives[i].games) :
                       fq.server.archives[i].games[k].pgn = g
        Kept(g) == ~Lost(g)
    IN SelectSeq(HealthyFetch.games, Kept)

\* position i is a requested bucket, a later bucket was requested after it and
\* a game of that later bucket was returned
LaterBucketFetched(i) ==
    \E j \in (i + 1)..Len(fq.server.archives) :
        /\ \E a, b \in 1..Len(fr.requested) :
              /\ a < b
              /\ fr.requested[a].year = fq.server.archives[i].year
              /\ fr.requested[a].month = fq.server.archives[i].month
              /\ fr.requested[b].year = fq.server.archives[j].year
              /\ fr.requested[b].month = fq.server.archives[j].month
        /\ \E k \in 1..Len(fq.server.archives[j].games) : \E n \in 1..Len(fr.games) :
              fr.games[n] = fq.server.archives[j].games[k].pgn

\* C15: a 404 or 403 answer raises nothing: when the archive index (or the
\* game stream) is answered so, the call returns the empty list; when a bucket
\* is answered so, the same buckets are requested as from a service that serves
\* them all, and the games returned are those of the other buckets.
C15_NotFoundYieldsEmpty ==
    fq.done =>
        IF fq.platform = "lichess"
        THEN FinalResponse(fq.server.stream) \in {404, 403} => fr.games = <<>>
        ELSE /\ FinalResponse(fq.server.index) \in {404, 403} =>
                    fr.games = <<>> /\ fr.requested = <<>>
             /\ (FinalResponse(fq.server.index) = 200 /\ Unserved({404, 403}) # {}) =>
                    /\ fr.requested = HealthyFetch.requested
                    /\ fr.games = HealthyGamesWithout(Unserved({404, 403}))

\* a bucket answered 404 or 403 was requested, and games of a later bucket were returned
C15_Witness ==
    /\ fq.done /\ fq.platform = "chess.com"
    /\ \E i \in Unserved({404, 403}) : LaterBucketFetched(i)

\* C16: a bucket whose request fails in transport (HTTP 500, no answer) does
\* not abort the fetch: it contributes no game, the same buckets are requested
\* as from a service that serves them all, and the games of the served buckets
\* are returned.
C16_BucketFailureKeepsFetching ==
    (/\ fq.done /\ fq.platform = "chess.com"
     /\ FinalResponse(fq.server.index) = 200 /\ Unserved({500, 0}) # {}) =>
        /\ fr.requested = HealthyFetch.requested
        /\ fr.games = HealthyGamesWithout(Unserved({500, 0}))

\* a bucket whose request failed was requested, and games of a later bucket were returned
C16_Witness ==
    /\ fq.done /\ fq.platform = "chess.com"
    /\ \E i \in Unserved({500, 0}) : LaterBucketFetched(i)

----------------------------------------------------------------------------
(* The normalizer on its own: process_pgn_data called on every list of at  *)
(* most MaxBatch raw texts below, and again on what it returned            *)

\* a game whose White and Black names both hold the player's name
GameBothNames ==
    MkGame("g5", DateChars(2024, 1, 7), <<"Live", "Chess">>, <<300>>,
           Ann, <<"a", "n", "n", "2">>)

\* a text that carries Source and BlackFideId headers already
GameStamped == [GameDec EXCEPT !.source = "lichess", !.bfid = "f9"]

\* a game the player had Black in, against an opponent whose name holds hers
GameOpponentNamed ==
    MkGame("g6", DateChars(2024, 1, 9), <<"Live", "Chess">>, <<300>>,
           <<"a", "n", "n", "2">>, Ann)

\* the raw texts of the lists
RawTexts ==
    {GameJan, GameJanNoDate, GameBothNames, GameOpponentNamed, GameStamped, EmptyText}

\* the lists of at most MaxBatch raw texts
RawLists == UNION {[1..n -> RawTexts] : n \in 0..MaxBatch}

\* one call of process_pgn_data on a list of raw texts
Normalize ==
    /\ ~nq.done
    /\ \E pgn_list \in RawLists, platform \in Platforms, player_name \in {Ann, Bob} :
          /\ nq' = [done |-> TRUE, pass |-> 1, pgn_list |-> pgn_list,
                    platform |-> platform, player_name |-> player_name,
                    fide_id |-> "f1"]
          /\ nr' = [done |-> TRUE, prev |-> <<>>,
                    out |-> process_pgn_data(pgn_list, platform, player_name, "f1")]
    /\ UNCHANGED <<files, player_info, player_accounts, collection_logs, now, last,
                   fq, fr, cq, cr, rosterVars>>

\* the call again, with the same arguments, on the list the first call returned
Renormalize ==
    /\ nq.done /\ nq.pass = 1
    /\ nq' = [nq EXCEPT !.pass = 2, !.pgn_list = nr.out]
    /\ nr' = [done |-> TRUE, prev |-> nr.out,
              out |-> process_pgn_data(nr.out, nq.platform, nq.player_name, nq.fide_id)]
    /\ UNCHANGED <<files, player_info, player_accounts, collection_logs, now, last,
                   fq, fr, cq, cr, rosterVars>>

NextNormalize == Normalize \/ Renormalize

SpecNormalize == Init /\ [][NextNormalize]_vars

\* the entries of the list of the call nq that parse, in input order
ParseableEntries ==
    LET Parses(g) == g.ok
    IN SelectSeq(nq.pgn_list, Parses)

\* C18: process_pgn_data returns a list no longer than its input with one game
\* for each parseable entry, in input order (same moves, players, date and
\* time control), each with the header Source equal to the platform; malformed
\* entries are dropped and drop nothing else.
C18_NormalizeKeepsParseable ==
    nq.done =>
        /\ Len(nr.out) <= Len(nq.pgn_list)
        /\ Len(nr.out) = Len(ParseableEntries)
        /\ \A i \in 1..Len(nr.out) :
              /\ nr.out[i].id = ParseableEntries[i].id
              /\ nr.out[i].white = ParseableEntries[i].white
              /\ nr.out[i].black = ParseableEntries[i].black
              /\ nr.out[i].tc = ParseableEntries[i].tc
              /\ nr.out[i].date = Reexport(ParseableEntries[i]).date
              /\ nr.out[i].source = nq.platform

\* a list with a malformed entry between two parseable ones gave two games
C18_Witness ==
    /\ nq.done /\ nq.pass = 1 /\ Len(nq.pgn_list) = 3
    /\ nq.pgn_list[1].ok /\ ~nq.pgn_list[2].ok /\ nq.pgn_list[3].ok
    /\ Len(nr.out) = 2

\* C19: process_pgn_data applied with the same arguments to the list it
\* returned returns that list again: same headers, same moves.
C19_NormalizeIdempotent ==
    (nq.done /\ nq.pass = 2) => nr.out = nr.prev

\* the second call was made on a game stamped with the player's FIDE ID whose
\* Black name also holds the player's name
C19_Witness ==
    /\ nq.done /\ nq.pass = 2
    /\ \E i \in 1..Len(nr.prev) :
          /\ nr.prev[i].wfid = nq.fide_id
          /\ IsSubstr(nq.player_name, nr.prev[i].black)
    /\ nr.out = nr.prev

\* C20: every step keeps the rows of collection_logs as they are, in place; a
\* collection cycle (successful, without games, or ended by an exception) whose
\* database transaction commits appends exactly one row, for its player and
\* platform and with its status; no other step appends a row.
C20_LogAppendOnly ==
    [][/\ Len(collection_logs') >= Len(collection_logs)
       /\ SubSeq(collection_logs', 1, Len(collection_logs)) = collection_logs
       /\ (last'.n = last.n + 1 /\ last'.logged) =>
             /\ Len(collection_logs') = Len(collection_logs) + 1
             /\ LET row == collection_logs'[Len(collection_logs')]
                IN /\ <<row.fide_id, row.platform>> = last'.acct
                   /\ row.status = IF last'.raised THEN "error"
                                   ELSE IF last'.fetched > 0 THEN "success"
                                   ELSE "inactive"
       /\ (last'.n = last.n) => collection_logs' = collection_logs]_vars

\* a cycle ended by an exception was logged after an earlier cycle's row
C20_Witness ==
    /\ Attempted /\ last.n = 2 /\ last.raised /\ last.logged
    /\ Len(collection_logs) = 2
    /\ collection_logs[2].status = "error"
    /\ collection_logs[1].status # "error"

\* the last collection attempt met an exception during fetch or persist: one
\* raised out of save_pgn_files, a transport failure of the adapter, or a
\* failed write of a bucket file or of player_info.json
LastAttemptException ==
    last.raised \/ last.transport_error \/ last.write_failed \/ last.info_failed

\* C21: the row logged for an attempt has status success, inactive or error:
\* success exactly when the attempt met no exception and yielded at least one
\* game (and then games_count >= 1), inactive exactly when it met no exception
\* and yielded no game, error exactly when an exception occurred during fetch or
\* persist; error_message is set exactly when the status is error.
C21_LogStatusMatchesOutcome ==
    (Attempted /\ last.logged) =>
        LET row == collection_logs[Len(collection_logs)]
        IN /\ row.status \in {"success", "inactive", "error"}
           /\ (row.status = "success") <=> (~LastAttemptException /\ last.fetched >= 1)
           /\ (row.status = "success") => row.games_count >= 1
           /\ (row.status = "inactive") <=> (~LastAttemptException /\ last.fetched = 0)
           /\ (row.status = "error") <=> LastAttemptException
           /\ row.error_message <=> (row.status = "error")

----------------------------------------------------------------------------
(* The metadata store on its own: roster imports (app.py:74-116) and       *)
(* collection logging, from an empty database                               *)

\* number of operations on the metadata store in one behaviour
MaxOps == 3

\* the rows a roster file may hold: two players, each under two descriptions
RosterRows ==
    {RosterRow(f, d[1], d[2], d[3], d[4], d[5], u[1], u[2]) :
        f \in RosterFideIds,
        d \in {<<Ann, "2850", "GM", "NOR", "1990">>, <<Bob, NaN, NaN, "USA", NaN>>},
        u \in {<<"u1", NaN>>, <<"u2", "v1">>, <<NaN, NaN>>}}

\* the roster files: one row, the two players, or one player twice
DataFrames ==
    {<<r>> : r \in RosterRows}
    \cup {<<r1, r2>> : r1 \in {r \in RosterRows : r.name = Ann /\ r.chesscom_username = "u1"},
                       r2 \in {r \in RosterRows : r.name = Bob /\ r.lichess_username = "v1"}}

\* validate_player_data: the required columns are there; no fide_id is
\* duplicated (data_processor.py:27-29)
validate_player_data(df) ==
    \A i, j \in 1..Len(df) : df[i].fide_id = df[j].fide_id => i = j

\* the state of an empty database
InitStore ==
    /\ files = [a \in Accounts |-> <<>>]
    /\ player_info = [f \in FideIds |->
                        [exists |-> FALSE, dirs |-> {},
                         platforms |-> [p \in Platforms |-> NoEntry]]]
    /\ player_accounts = <<>>
    /\ collection_logs = <<>>
    /\ now = 1
    /\ last = NoAttempt
    /\ fq = NoCall /\ fr = NoReturn /\ cq = NoCall /\ cr = NoReturn
    /\ nq = NoCall /\ nr = NoReturn
    /\ players = <<>>
    /\ runs = NoRuns
    /\ batch = NoBatch
    /\ rq = NoRequest
    /\ scheduled_tasks = <<>>
    /\ jobs = <<>>
    /\ job_ids = <<>>
    /\ proc = "running"
    /\ clock = 0
    /\ fired = NoFiring
    /\ so = NoOperation

\* the upload of a roster file, which is validated first (app.py:74-92), or
\* Save Changes on the edited player list, which is not (app.py:107-116)
ImportPlayerData ==
    /\ so.n < MaxOps
    /\ \E df \in DataFrames, path \in {"upload", "save"}, db_fault \in BOOLEAN :
       \E r \in {IF path = "upload" /\ ~validate_player_data(df)
                 THEN [players |-> players, accounts |-> player_accounts, ok |-> FALSE]
                 ELSE import_player_data(players, player_accounts, df, db_fault)} :
          /\ players' = r.players
          /\ player_accounts' = r.accounts
          /\ so' = [op |-> "import", n |-> so.n + 1, df |-> df, path |-> path,
                    db_fault |-> db_fault, ok |-> r.ok]
    /\ UNCHANGED <<files, player_info, runs, collection_logs, now, last, batch, rq, fq, fr, cq, cr, nq, nr,
                   scheduled_tasks, jobs, job_ids, proc, clock, fired>>

\* the outcomes a collection cycle hands to log_collection: status, games_count
\* and whether an error message is given
LoggedOutcomes ==
    {<<"success", 2, FALSE>>, <<"inactive", 0, FALSE>>, <<"error", 0, TRUE>>}

\* one call of DatabaseManager.log_collection
LogCollection ==
    /\ so.n < MaxOps
    /\ \E acct \in RosterAccounts, o \in LoggedOutcomes, db_fault \in BOOLEAN :
       \E r \in {log_collection(collection_logs, player_accounts, acct[1], acct[2],
                                "Last month", o[2], <<>>, o[1], o[3], now, db_fault)} :
          /\ collection_logs' = r.logs
          /\ player_accounts' = r.accounts
          /\ so' = [op |-> "log", n |-> so.n + 1, acct |-> acct, outcome |-> o,
                    ok |-> r.ok]
    /\ UNCHANGED <<files, player_info, runs, now, last, batch, rq, fq, fr, cq, cr, nq, nr,
                   players, scheduled_tasks, jobs, job_ids, proc, clock, fired>>

NextStore == ImportPlayerData \/ LogCollection

SpecStore == InitStore /\ [][NextStore]_vars

----------------------------------------------------------------------------
(* Claims about the metadata store, checked under SpecStore *)

\* C22: a call of log_collection either stores both the new log row and the
\* update of the account row of the same fide_id and platform (is_active,
\* last_update, total_games; no other row changes) and returns True, or fails
\* and stores neither.
C22_LogAndAccountTogether ==
    [][(so'.n = so.n + 1 /\ so'.op = "log") =>
          LET key == so'.acct
              both ==
                /\ Len(collection_logs') = Len(collection_logs) + 1
                /\ SubSeq(collection_logs', 1, Len(collection_logs)) = collection_logs
                /\ LET row == collection_logs'[Len(collection_logs')]
                   IN /\ <<row.fide_id, row.platform>> = key
                      /\ row.status = so'.outcome[1]
                      /\ row.games_count = so'.outcome[2]
                /\ DOMAIN player_accounts' = DOMAIN player_accounts
                /\ \A a \in DOMAIN player_accounts :
                      IF a = key
                      THEN /\ player_accounts'[a].is_active = (so'.outcome[1] = "success")
                           /\ player_accounts'[a].last_update = now
                           /\ player_accounts'[a].total_games =
                                 player_accounts[a].total_games + so'.outcome[2]
                           /\ player_accounts'[a].username = player_accounts[a].username
                      ELSE player_accounts'[a] = player_accounts[a]
              neither ==
                /\ collection_logs' = collection_logs
                /\ player_accounts' = player_accounts
          IN IF so'.ok THEN both ELSE neither]_vars

\* a logged success has updated the row of an imported account that an earlier
\* attempt had marked inactive
C22_Witness ==
    /\ so.op = "log" /\ so.ok /\ so.outcome[1] = "success"
    /\ so.acct \in DOMAIN player_accounts
    /\ Len(collection_logs) >= 2
    /\ collection_logs[Len(collection_logs) - 1].status = "inactive"
    /\ collection_logs[Len(collection_logs)].status = "success"
    /\ player_accounts[so.acct].is_active
    /\ player_accounts[so.acct].total_games = 2

\* the username the roster file df gives the account a (NaN when it names none):
\* that of the last row of the player whose cell of the platform is not NaN
RECURSIVE NamedUsername(_, _, _)
NamedUsername(df, a, acc) ==
    IF df = <<>> THEN acc
    ELSE LET cell == IF a[2] = "chess.com" THEN Head(df).chesscom_username
                     ELSE Head(df).lichess_username
         IN NamedUsername(Tail(df), a,
                          IF Head(df).fide_id = a[1] /\ cell # NaN THEN cell ELSE acc)

\* C23: table player_accounts is keyed by (fide_id, platform).  An import that
\* commits inserts the accounts it names for the first time with is_active =
\* true, total_games = 0 and last_update NULL, and changes of every account
\* known before only the username (and that only when the file names it):
\* is_active, last_update and total_games stay as they were; no row is removed.
\* An import that fails changes nothing.
C23_AccountUpsert ==
    [][(so'.n = so.n + 1 /\ so'.op = "import") =>
          IF ~so'.ok THEN player_accounts' = player_accounts
          ELSE /\ DOMAIN player_accounts' =
                     DOMAIN player_accounts
                        \cup {a \in RosterAccounts : NamedUsername(so'.df, a, NaN) # NaN}
               /\ \A a \in DOMAIN player_accounts' :
                     LET named == NamedUsername(so'.df, a, NaN)
                     IN IF a \in DOMAIN player_accounts
                        THEN /\ player_accounts'[a].is_active = player_accounts[a].is_active
                             /\ player_accounts'[a].last_update = player_accounts[a].last_update
                             /\ player_accounts'[a].total_games = player_accounts[a].total_games
                             /\ player_accounts'[a].username =
                                   IF named # NaN THEN named ELSE player_accounts[a].username
                        ELSE /\ player_accounts'[a].is_active
                             /\ player_accounts'[a].last_update = 0
                             /\ player_accounts'[a].total_games = 0
                             /\ player_accounts'[a].username = named]_vars

\* a roster file named, with its username, an account that a logged collection
\* had already updated: the row keeps the counts of that collection
C23_Witness ==
    /\ so.op = "import" /\ so.ok
    /\ \E a \in DOMAIN player_accounts :
          /\ a[2] = "chess.com"
          /\ NamedUsername(so.df, a, NaN) = "u2"
          /\ player_accounts[a].username = "u2"
          /\ player_accounts[a].total_games = 2
          /\ player_accounts[a].last_update = now
          /\ \E i \in 1..Len(collection_logs) :
                <<collection_logs[i].fide_id, collection_logs[i].platform>> = a

\* the index of the last row of the roster file df that names fide_id f (0: none)
LastRowOf(df, f) ==
    IF \E i \in 1..Len(df) : df[i].fide_id = f
    THEN CHOOSE i \in 1..Len(df) :
            /\ df[i].fide_id = f
            /\ \A j \in (i + 1)..Len(df) : df[j].fide_id # f
    ELSE 0

\* C24: table players is keyed by fide_id.  No step removes a row.  An import
\* is rejected only by a failure of the database or by the validation of an
\* uploaded file, never because a fide_id is known; an import that commits
\* leaves one row for every fide_id it names, inserted when unseen, and holding
\* the name, rating, title, federation and birth_year the file gives, and
\* leaves every other row as it was.
C24_PlayerUpsert ==
    [][/\ DOMAIN players \subseteq DOMAIN players'
       /\ (so'.n = so.n + 1 /\ so'.op = "import") =>
             /\ so'.ok <=> (/\ ~so'.db_fault
                            /\ so'.path = "upload" => validate_player_data(so'.df))
             /\ IF ~so'.ok THEN players' = players
                ELSE /\ DOMAIN players' =
                           DOMAIN players \cup {so'.df[i].fide_id : i \in 1..Len(so'.df)}
                     /\ \A f \in DOMAIN players' :
                           LET i == LastRowOf(so'.df, f)
                           IN IF i = 0 THEN players'[f] = players[f]
                              ELSE /\ players'[f].name = so'.df[i].name
                                   /\ players'[f].rating = NullIfNaN(so'.df[i].rating)
                                   /\ players'[f].title = NullIfNaN(so'.df[i].title)
                                   /\ players'[f].federation = NullIfNaN(so'.df[i].federation)
                                   /\ players'[f].birth_year = NullIfNaN(so'.df[i].birth_year)]_vars

\* a roster file described a known player anew (the player has an account that
\* this file does not name): the row holds the new name and no rating, and the
\* other player's row is still there
C24_Witness ==
    /\ so.op = "import" /\ so.ok /\ so.n >= 2
    /\ DOMAIN players = RosterFideIds
    /\ Len(so.df) = 1
    /\ so.df[1].chesscom_username = NaN
    /\ <<so.df[1].fide_id, "chess.com">> \in DOMAIN player_accounts
    /\ players[so.df[1].fide_id].name = Bob
    /\ players[so.df[1].fide_id].rating = Null
    /\ \E f \in DOMAIN players : players[f].name = Ann /\ players[f].rating = "2850"

----------------------------------------------------------------------------
(* The Scheduling tab (app.py:380-502) and the scheduler of the session,   *)
(* on the imported roster                                                   *)

\* the last hour of a behaviour
MaxClock == HoursPerDay + MisfireGraceTime + 1

\* the settings of the Schedule Collection form: platforms, time controls,
\* day of month, hour of day, maximum games
ScheduleForms ==
    {[platforms |-> <<"Chess.com", "Lichess">>, time_controls |-> <<>>,
      day_of_month |-> 1, hour |-> HoursPerDay - 1, max_games |-> 0],
     [platforms |-> <<"Chess.com">>, time_controls |-> <<"blitz">>,
      day_of_month |-> DaysPerMonth, hour |-> 0, max_games |-> 5]}

\* the players selected in the form
ScheduledPlayers == {<<Ann>>, <<Ann, Bob>>}

\* player_data[player_data['name'] == player_name] (scheduler.py:199): the
\* fide_ids of the rows with that name
FideIdsNamed(player_name) == {f \in DOMAIN players : players[f].name = player_name}

\* the username of an account in player_data (NaN when the player has none)
UsernameOf(fide_id, platform) ==
    IF <<fide_id, platform>> \in DOMAIN player_accounts
    THEN player_accounts[<<fide_id, platform>>].username ELSE NaN

\* what the closure collection_task of one player holds (scheduler.py:205-222)
TaskOf(fide_id, form) ==
    [player_name |-> players[fide_id].name, fide_id |-> fide_id,
     chesscom_username |-> UsernameOf(fide_id, "chess.com"),
     lichess_username |-> UsernameOf(fide_id, "lichess"),
     platforms |-> form.platforms, time_controls |-> form.time_controls,
     max_games |-> form.max_games]

RECURSIVE ScheduleTasks(_, _, _, _)
\* schedule_scraping_tasks: the loop of scheduler.py:197-224 over the selected
\* names; st is [jobs, tasks, job_ids]
ScheduleTasks(st, player_names, form, db_fault) ==
    IF player_names = <<>> THEN st
    ELSE IF FideIdsNamed(Head(player_names)) = {}
    THEN ScheduleTasks(st, Tail(player_names), form, db_fault)
    ELSE LET fide_id == CHOOSE f \in FideIdsNamed(Head(player_names)) : TRUE
             r == schedule_scraping_task(st.jobs, st.tasks, TaskOf(fide_id, form),
                                         form.day_of_month, form.hour, clock, db_fault)
         IN ScheduleTasks([jobs |-> r.jobs, tasks |-> r.tasks,
                           job_ids |-> Append(st.job_ids, r.job_id)],
                          Tail(player_names), form, db_fault)

\* Schedule Collection (app.py:429-445)
ScheduleCollection ==
    /\ proc = "running"
    /\ so.n < MaxOps
    /\ \E names \in ScheduledPlayers, form \in ScheduleForms, db_fault \in BOOLEAN :
       \E r \in {ScheduleTasks([jobs |-> jobs, tasks |-> scheduled_tasks,
                                job_ids |-> <<>>], names, form, db_fault)} :
          /\ jobs' = r.jobs
          /\ scheduled_tasks' = r.tasks
          /\ job_ids' = job_ids \o r.job_ids
          /\ so' = [op |-> "schedule", n |-> so.n + 1, names |-> names, form |-> form,
                    db_fault |-> db_fault, raised |-> FALSE, job_id |-> <<>>,
                    prev_tasks |-> scheduled_tasks]
    /\ UNCHANGED <<files, player_info, runs, player_accounts, collection_logs, now, last, batch, rq,
                   fq, fr, cq, cr, nq, nr, players, proc, clock, fired>>

RECURSIVE RemoveFirst(_, _)
\* list.remove(x): the list without the first occurrence of x
RemoveFirst(list, x) ==
    IF list = <<>> THEN <<>>
    ELSE IF Head(list) = x THEN Tail(list)
    ELSE <<Head(list)>> \o RemoveFirst(Tail(list), x)

\* x in list
InList(list, x) == \E i \in 1..Len(list) : list[i] = x

\* Delete Selected Task (app.py:484-500) for a task of the list shown:
\* scheduler.remove_job raises JobLookupError for a job id the scheduler does
\* not hold, and the handler ends there
DeleteSelectedTask ==
    /\ proc = "running"
    /\ so.n < MaxOps
    /\ \E job_id \in ListedTasks(scheduled_tasks, players), db_fault \in BOOLEAN :
         IF job_id \notin DOMAIN jobs
         THEN /\ so' = [op |-> "delete", n |-> so.n + 1, names |-> <<>>,
                        form |-> <<>>, db_fault |-> db_fault, raised |-> TRUE,
                        job_id |-> job_id]
              /\ UNCHANGED <<jobs, scheduled_tasks, job_ids>>
         ELSE \E r \in {delete_scheduled_task(scheduled_tasks, job_id, db_fault)} :
              /\ jobs' = [j \in (DOMAIN jobs) \ {job_id} |-> jobs[j]]
              /\ scheduled_tasks' = r.tasks
              /\ job_ids' = IF r.ok /\ InList(job_ids, job_id)
                            THEN RemoveFirst(job_ids, job_id) ELSE job_ids
              /\ so' = [op |-> "delete", n |-> so.n + 1, names |-> <<>>,
                        form |-> <<>>, db_fault |-> db_fault, raised |-> FALSE,
                        job_id |-> job_id]
    /\ UNCHANGED <<files, player_info, runs, player_accounts, collection_logs, now, last, batch, rq,
                   fq, fr, cq, cr, nq, nr, players, proc, clock, fired>>

\* the process ends: the scheduler and the session state live in its memory
StopProcess ==
    /\ proc # "stopped"
    /\ so.n < MaxOps
    /\ proc' = "stopped"
    /\ jobs' = <<>>
    /\ job_ids' = <<>>
    /\ so' = [op |-> "stop", n |-> so.n + 1, names |-> <<>>, form |-> <<>>,
              db_fault |-> FALSE, raised |-> FALSE, job_id |-> <<>>, at |-> clock,
              back |-> clock]
    /\ UNCHANGED <<files, player_info, runs, player_accounts, collection_logs, now, last, batch, rq,
                   fq, fr, cq, cr, nq, nr, players, scheduled_tasks, clock, fired>>

\* the process starts: a new BackgroundScheduler with no job, an empty
\* job_ids list (app.py:32-36); the database is the one on disk
StartProcess ==
    /\ proc = "stopped"
    /\ proc' = "running"
    /\ so' = [so EXCEPT !.back = clock]
    /\ UNCHANGED <<files, player_info, runs, player_accounts, collection_logs, now, last, batch, rq,
                   fq, fr, cq, cr, nq, nr, players, scheduled_tasks, jobs, job_ids,
                   clock, fired>>

\* the process is held (the host sleeps): its memory is kept, its scheduler
\* thread does not run
SuspendProcess ==
    /\ proc = "running"
    /\ so.n < MaxOps
    /\ proc' = "suspended"
    /\ so' = [op |-> "suspend", n |-> so.n + 1, names |-> <<>>, form |-> <<>>,
              db_fault |-> FALSE, raised |-> FALSE, job_id |-> <<>>, at |-> clock,
              back |-> clock]
    /\ UNCHANGED <<files, player_info, runs, player_accounts, collection_logs, now, last, batch, rq,
                   fq, fr, cq, cr, nq, nr, players, scheduled_tasks, jobs, job_ids,
                   clock, fired>>

ResumeProcess ==
    /\ proc = "suspended"
    /\ proc' = "running"
    /\ so' = [so EXCEPT !.back = clock]
    /\ UNCHANGED <<files, player_info, runs, player_accounts, collection_logs, now, last, batch, rq,
                   fq, fr, cq, cr, nq, nr, players, scheduled_tasks, jobs, job_ids,
                   clock, fired>>

\* a job is due: the running scheduler wakes for it before time passes
Due(j) == jobs[j].next_run_time <= clock

\* the last firing instant of the trigger that is not after instant t
LastFireTime(day_of_month, hour, t) ==
    NextFireTime(day_of_month, hour, t + 1) - HoursPerMonth

\* the scheduler thread handles a due job: of the run times passed it keeps
\* the last (coalescing), runs collection_task unless that run time is more
\* than misfire_grace_time ago, and sets the next run time
FireJob ==
    /\ proc = "running"
    /\ \E j \in DOMAIN jobs :
         /\ Due(j)
         /\ LET run_time == LastFireTime(jobs[j].day_of_month, jobs[j].hour, clock)
            IN fired' = [job_id |-> j, run_time |-> run_time, at |-> clock,
                         outcome |-> IF clock - run_time > MisfireGraceTime
                                     THEN "missed" ELSE "run"]
         /\ jobs' = [jobs EXCEPT ![j].next_run_time =
                        NextFireTime(jobs[j].day_of_month, jobs[j].hour, clock + 1)]
    /\ UNCHANGED <<files, player_info, runs, player_accounts, collection_logs, now, last, batch, rq,
                   fq, fr, cq, cr, nq, nr, players, scheduled_tasks, job_ids,
                   proc, clock, so>>

\* an hour passes
TickClock ==
    /\ clock < MaxClock
    /\ proc = "running" => \A j \in DOMAIN jobs : ~Due(j)
    /\ clock' = clock + 1
    /\ UNCHANGED <<files, player_info, runs, player_accounts, collection_logs, now, last, batch, rq,
                   fq, fr, cq, cr, nq, nr, players, scheduled_tasks, jobs, job_ids,
                   proc, fired, so>>

NextSchedule ==
    \/ ScheduleCollection \/ DeleteSelectedTask
    \/ StopProcess \/ StartProcess \/ SuspendProcess \/ ResumeProcess
    \/ FireJob \/ TickClock

SpecSchedule == Init /\ [][NextSchedule]_vars

----------------------------------------------------------------------------
(* Claims about the scheduler, checked under SpecSchedule *)

\* the players of the roster the last Schedule Collection named
ScheduledFideIds(names) ==
    {f \in DOMAIN players : \E i \in 1..Len(names) : players[f].name = names[i]}

\* C25: after a Schedule Collection whose database writes commit, every player
\* it names has exactly one row of scheduled_tasks with is_active = true: the
\* row of the job_id "collection_" + fide_id, holding the platforms, time
\* controls, day, hour and maximum of this call; the scheduler holds exactly
\* one job for the player, under that job_id and with the trigger of this
\* call; no error is raised, also when the player was scheduled before.
C25_RescheduleReplaces ==
    [][(so'.n = so.n + 1 /\ so'.op = "schedule" /\ ~so'.db_fault) =>
          /\ ~so'.raised
          /\ \A f \in ScheduledFideIds(so'.names) :
                /\ {j \in DOMAIN scheduled_tasks' :
                       scheduled_tasks'[j].fide_id = f /\ scheduled_tasks'[j].is_active}
                      = {<<"collection_", f>>}
                /\ LET row == scheduled_tasks'[<<"collection_", f>>]
                   IN /\ ~row.platforms.null /\ row.platforms.items = so'.form.platforms
                      /\ IF so'.form.time_controls = <<>> THEN row.time_controls.null
                         ELSE /\ ~row.time_controls.null
                              /\ row.time_controls.items = so'.form.time_controls
                      /\ row.day_of_month = so'.form.day_of_month
                      /\ row.hour = so'.form.hour
                      /\ row.max_games = so'.form.max_games
                /\ {j \in DOMAIN jobs' : jobs'[j].task.fide_id = f} = {<<"collection_", f>>}
                /\ LET job == jobs'[<<"collection_", f>>]
                   IN /\ job.day_of_month = so'.form.day_of_month
                      /\ job.hour = so'.form.hour
                      /\ job.task.platforms = so'.form.platforms
                      /\ job.task.time_controls = so'.form.time_controls
                      /\ job.task.max_games = so'.form.max_games]_vars

\* a player scheduled before, for another day and hour, was scheduled again
C25_Witness ==
    /\ so.op = "schedule" /\ ~so.db_fault
    /\ \E f \in ScheduledFideIds(so.names) :
          /\ <<"collection_", f>> \in DOMAIN so.prev_tasks
          /\ so.prev_tasks[<<"collection_", f>>].day_of_month # so.form.day_of_month
          /\ scheduled_tasks[<<"collection_", f>>].day_of_month = so.form.day_of_month
          /\ DOMAIN jobs = DOMAIN scheduled_tasks

\* the process runs again, in the hour so.back, after it was stopped or held,
\* and its scheduler has handled what was due
Recovered ==
    /\ proc = "running"
    /\ so.op \in {"stop", "suspend"}
    /\ clock = so.back
    /\ \A j \in DOMAIN jobs : ~Due(j)

\* the last firing instant of the task of row j that passed between the hour
\* so.at, in which the process stopped running, and the hour so.back, in which
\* it ran again (0: none)
PassedInstant(j) ==
    LET t == LastFireTime(scheduled_tasks[j].day_of_month, scheduled_tasks[j].hour,
                          so.back)
    IN IF t > so.at THEN t ELSE 0

\* C26: once the process runs again, a firing of an active task whose instant
\* passed while it did not run was executed only if the process recovered
\* within the grace window of one hour after the instant; when more than the
\* grace window had passed it was skipped; and the task fires next at the next
\* monthly instant of its trigger.
C26_MisfireWithinGrace ==
    Recovered =>
        \A j \in DOMAIN scheduled_tasks :
            (scheduled_tasks[j].is_active /\ PassedInstant(j) > 0) =>
                /\ (fired.job_id = j /\ fired.run_time = PassedInstant(j)) =>
                      IF fired.at - fired.run_time <= MisfireGraceTime
                      THEN fired.outcome = "run" ELSE fired.outcome = "missed"
                /\ j \in DOMAIN jobs
                /\ jobs[j].next_run_time =
                      NextFireTime(scheduled_tasks[j].day_of_month,
                                   scheduled_tasks[j].hour, clock + 1)

\* C27: removing a scheduled task raises no error and removes the task's
\* scheduled_tasks row, also when its job is no longer in the scheduler's job
\* store (after a restart of the process), unless the database itself fails.
C27_RemovalIdempotent ==
    (so.op = "delete" /\ ~so.db_fault) =>
        /\ ~so.raised
        /\ so.job_id \notin DOMAIN scheduled_tasks

\* C28: for the window "Last month" and the same adapter result, the scheduled
\* path and the manual path log the same entry: the games_count of the row an
\* attempt logs is the count either path computes from that result, the number
\* of entries fetched (Start Collection) and the number of games normalised
\* (collection_task) alike.
C28_PathsLogSameCount ==
    (last.op \in {"manual", "scheduled"} /\ last.logged /\ ~last.raised
        /\ collection_logs[Len(collection_logs)].time_period = "Last month") =>
        /\ collection_logs[Len(collection_logs)].games_count =
              GamesCount("manual", [i \in 1..last.fetched |-> i], last.pgn_list)
        /\ collection_logs[Len(collection_logs)].games_count =
              GamesCount("scheduled", [i \in 1..last.fetched |-> i], last.pgn_list)

----------------------------------------------------------------------------
(* Overlapping collection cycles.  Start Collection runs in the script      *)
(* thread of the page and collection_task in a worker thread of the        *)
(* BackgroundScheduler started at app.py:32-34; neither takes a lock, so    *)
(* the steps of save_pgn_files and log_collection of two cycles on one     *)
(* account interleave.  Each step below is one file-system or database     *)
(* call of the cycle.                                                      *)

\* the account both cycles collect
OverlapAccount == <<"f1", "chess.com">>

\* the adapter results of the two cycles (window "Last month", the cycles
\* differ in their time-control filter or in the moment of their fetch)
OverlapFetches ==
    {<<GameJan, GameBothNames>>, <<GameBothNames>>, <<GameDec, GameBothNames>>}

\* games_by_date of a cycle
ByDate(r) == GamesByDate(runs[r].pgn_list, Today, [keys |-> <<>>, games |-> <<>>])

\* the content of a file after a descriptor at offset pos (counted in chunks)
\* writes one chunk: the bytes before pos stay, a gap is filled with zero bytes
WriteAt(content, pos, chunk) ==
    [i \in 1..(IF Len(content) > pos + 1 THEN Len(content) ELSE pos + 1) |->
        IF i = pos + 1 THEN chunk
        ELSE IF i <= Len(content) THEN content[i]
        ELSE [pgn |-> [chunk.pgn EXCEPT !.ok = FALSE, !.id = "\\0"], trailer |-> ""]]

\* lines 80-141 of save_pgn_files after the fetch and process_pgn_data of the
\* cycle: the directories and player_info.json exist, the games are grouped
BeginCycle(r) ==
    /\ runs[r].pc = "idle"
    /\ \E games \in OverlapFetches :
       \E pgn_list \in {process_pgn_data(games, runs[r].acct[2],
                                         players[runs[r].acct[1]].name,
                                         runs[r].acct[1])} :
       \E by_date \in {GamesByDate(pgn_list, Today, [keys |-> <<>>, games |-> <<>>])} :
          /\ player_info' = [player_info EXCEPT ![runs[r].acct[1]] =
                                get_player_directory(@, runs[r].acct[2])]
          /\ runs' = [runs EXCEPT ![r] =
                        [@ EXCEPT !.pc = IF by_date.keys = <<>> THEN "load" ELSE "open",
                                  !.games = games, !.pgn_list = pgn_list,
                                  !.keys = by_date.keys]]
    /\ UNCHANGED <<files, player_accounts, collection_logs, now, last, batch, rq,
                   fq, fr, cq, cr, nq, nr, players, scheduled_tasks, jobs, job_ids,
                   proc, clock, fired, so>>

\* open(filename, "w") of line 157: the bucket file is created or truncated
OpenBucket(r) ==
    /\ runs[r].pc = "open"
    /\ \E k \in {Head(runs[r].keys)} :
          files' = [files EXCEPT ![runs[r].acct] =
                      [x \in (DOMAIN @) \cup {k} |-> IF x = k THEN <<>> ELSE @[x]]]
    /\ runs' = [runs EXCEPT ![r] = [@ EXCEPT !.pc = "write", !.pos = 0]]
    /\ UNCHANGED <<player_info, player_accounts, collection_logs, now, last, batch, rq,
                   fq, fr, cq, cr, nq, nr, players, scheduled_tasks, jobs, job_ids,
                   proc, clock, fired, so>>

\* one pass of the loop of lines 158-161: the game and its trailer reach the
\* file at the offset of the cycle's own descriptor; after the last game the
\* file is closed and the loop of line 145 goes to the next bucket
WriteGame(r) ==
    /\ runs[r].pc = "write"
    /\ \E k \in {Head(runs[r].keys)} :
       \E chunks \in {Chunks(ByDate(r).games[k])} :
          /\ files' = [files EXCEPT ![runs[r].acct] =
                         [x \in (DOMAIN @) \cup {k} |->
                             IF x = k
                             THEN WriteAt(IF k \in DOMAIN @ THEN @[k] ELSE <<>>,
                                          runs[r].pos, chunks[runs[r].pos + 1])
                             ELSE @[x]]]
          /\ runs' = [runs EXCEPT ![r] =
                        IF runs[r].pos + 1 < Len(chunks)
                        THEN [@ EXCEPT !.pos = @ + 1, !.total_saved = @ + 1]
                        ELSE [@ EXCEPT !.pos = 0, !.total_saved = @ + 1,
                                       !.keys = Tail(@),
                                       !.pc = IF Tail(runs[r].keys) = <<>>
                                              THEN "load" ELSE "open"]]
    /\ UNCHANGED <<player_info, player_accounts, collection_logs, now, last, batch, rq,
                   fq, fr, cq, cr, nq, nr, players, scheduled_tasks, jobs, job_ids,
                   proc, clock, fired, so>>

\* json.load of lines 171-172: the cycle holds its own copy of player_info.json
LoadPlayerInfo(r) ==
    /\ runs[r].pc = "load"
    /\ runs' = [runs EXCEPT ![r] =
                  [@ EXCEPT !.pc = "dump",
                            !.loaded = player_info[runs[r].acct[1]].platforms]]
    /\ UNCHANGED <<files, player_info, player_accounts, collection_logs, now, last, batch, rq,
                   fq, fr, cq, cr, nq, nr, players, scheduled_tasks, jobs, job_ids,
                   proc, clock, fired, so>>

\* lines 174-192: the copy is updated and written over player_info.json
DumpPlayerInfo(r) ==
    /\ runs[r].pc = "dump"
    /\ player_info' =
          [player_info EXCEPT ![runs[r].acct[1]].platforms =
              [runs[r].loaded EXCEPT ![runs[r].acct[2]] =
                  UpdateSummary(@, runs[r].total_saved, Len(runs[r].games) > 0, now)]]
    /\ runs' = [runs EXCEPT ![r] = [@ EXCEPT !.pc = "log"]]
    /\ UNCHANGED <<files, player_accounts, collection_logs, now, last, batch, rq,
                   fq, fr, cq, cr, nq, nr, players, scheduled_tasks, jobs, job_ids,
                   proc, clock, fired, so>>

\* db_manager.log_collection of app.py:267-274 and scheduler.py:71-78: one
\* transaction of the cycle's own connection
LogCycle(r) ==
    /\ runs[r].pc = "log"
    /\ \E logged \in
          {log_collection(collection_logs, player_accounts, runs[r].acct[1],
                          runs[r].acct[2], "Last month",
                          GamesCount(r, runs[r].games, runs[r].pgn_list), <<>>,
                          IF Len(runs[r].games) > 0 THEN "success" ELSE "inactive",
                          FALSE, now, FALSE)} :
          /\ collection_logs' = logged.logs
          /\ player_accounts' = logged.accounts
    /\ runs' = [runs EXCEPT ![r] = [@ EXCEPT !.pc = "done"]]
    /\ UNCHANGED <<files, player_info, now, last, batch, rq,
                   fq, fr, cq, cr, nq, nr, players, scheduled_tasks, jobs, job_ids,
                   proc, clock, fired, so>>

\* a step of Start Collection in the script thread
ManualStep ==
    \/ BeginCycle("manual") \/ OpenBucket("manual") \/ WriteGame("manual")
    \/ LoadPlayerInfo("manual") \/ DumpPlayerInfo("manual") \/ LogCycle("manual")

\* a step of collection_task in the scheduler's worker thread
ScheduledStep ==
    \/ BeginCycle("scheduled") \/ OpenBucket("scheduled") \/ WriteGame("scheduled")
    \/ LoadPlayerInfo("scheduled") \/ DumpPlayerInfo("scheduled")
    \/ LogCycle("scheduled")

NextOverlap == ManualStep \/ ScheduledStep

SpecOverlap == Init /\ [][NextOverlap]_vars

\* both cycles have returned
BothDone == \A r \in Runs : runs[r].pc = "done"

\* the bucket files a cycle writes when it runs alone
CompleteWrite(r) == [k \in DOMAIN ByDate(r).games |-> Chunks(ByDate(r).games[k])]

\* C29: when a manual run and a scheduled firing for the same account overlap,
\* every bucket file ends with the complete write of exactly one of the two
\* runs, never with part of one run's write mixed with part of the other's.
C29_NoMixedBucket ==
    BothDone =>
        \A k \in DOMAIN files[OverlapAccount] :
            \E r \in Runs :
                /\ k \in DOMAIN CompleteWrite(r)
                /\ files[OverlapAccount][k] = CompleteWrite(r)[k]

\* C30: when a manual run and a scheduled firing for the same account overlap,
\* the account summary ends as if the two attempts had run one after the other:
\* total_games of the entry of player_info.json has grown by the games both
\* runs saved, and total_games of the player_accounts row by the counts both
\* runs logged.
C30_NoLostIncrement ==
    BothDone =>
        /\ player_info[OverlapAccount[1]].platforms[OverlapAccount[2]].total_games =
              runs["manual"].total_saved + runs["scheduled"].total_saved
        /\ player_accounts[OverlapAccount].total_games =
              ImportedRoster.accounts[OverlapAccount].total_games
                 + GamesCount("manual", runs["manual"].games, runs["manual"].pgn_list)
                 + GamesCount("scheduled", runs["scheduled"].games,
                              runs["scheduled"].pgn_list)

----------------------------------------------------------------------------
(* A batch of collection cycles: the loops of Start Collection             *)
(* (app.py:223-338) over the selected players and their platforms, and the *)
(* two platform blocks of one firing of collection_task                    *)
(* (scheduler.py:44-142)                                                   *)

\* what one (player, platform) pair of a batch meets: a healthy service, a
\* service that answers HTTP 500, a directory that cannot be created, a
\* database that cannot be written
PairConditions == {"ok", "http500", "dir_fault", "db_fault"}

\* the service a pair talks to under a condition
ServerFor(platform, cond) ==
    IF platform = "chess.com"
    THEN [index |-> IF cond = "http500" THEN <<500>> ELSE <<200>>,
          archives |-> ArchivesAt(Today, 200)]
    ELSE [stream |-> IF cond = "http500" THEN <<500>> ELSE <<200>>,
          games |-> SelectSeq(AllLichessGames, LAMBDA g : DateLeq(g.played, Today))]

\* the file-system and database failures a pair meets under a condition
FaultsFor(cond) ==
    [NoFaults EXCEPT !.dir = (cond = "dir_fault"), !.db = (cond = "db_fault")]

\* the archive and the metadata store a batch works on, and the pairs it has
\* attempted so far, in order
BatchState(bucket_files, info, logs, accounts) ==
    [files |-> bucket_files, player_info |-> info, logs |-> logs,
     accounts |-> accounts, attempted |-> <<>>, raised |-> <<>>]

\* the state after a pair: the result of save_pgn_files and of log_collection
\* stored, the pair recorded as attempted
AfterPair(st, fide_id, platform, saved, logged) ==
    [files |-> [st.files EXCEPT ![<<fide_id, platform>>] = saved.files],
     player_info |-> [st.player_info EXCEPT ![fide_id] = saved.info],
     logs |-> logged.logs, accounts |-> logged.accounts,
     attempted |-> Append(st.attempted, <<fide_id, platform>>),
     raised |-> Append(st.raised, saved.raised)]

\* the log_collection call of the try block, or of its except branch when
\* save_pgn_files raised (app.py:266-288, scheduler.py:71-94)
LogPair(st, path, fide_id, platform, time_period, cond, games, processed_games, saved) ==
    AfterPair(st, fide_id, platform, saved,
              IF saved.raised
              THEN log_collection(st.logs, st.accounts, fide_id, platform,
                                  time_period, 0, <<>>, "error", TRUE, now,
                                  FaultsFor(cond).db)
              ELSE log_collection(st.logs, st.accounts, fide_id, platform,
                                  time_period,
                                  GamesCount(path, games, processed_games), <<>>,
                                  IF Len(games) > 0 THEN "success" ELSE "inactive",
                                  FALSE, now, FaultsFor(cond).db))

\* the save_pgn_files call of the try block (app.py:257-264, scheduler.py:62-69)
SavePair(st, path, fide_id, platform, time_period, cond, games, processed_games) ==
    LogPair(st, path, fide_id, platform, time_period, cond, games, processed_games,
            save_pgn_files(st.files[<<fide_id, platform>>], st.player_info[fide_id],
                           processed_games, platform, Len(games) > 0, Today, now,
                           FaultsFor(cond)))

\* the processing step of the try block (app.py:257-259, scheduler.py:62-64)
ProcessPair(st, path, player_name, fide_id, platform, time_period, cond, games) ==
    SavePair(st, path, fide_id, platform, time_period, cond, games,
             IF games # <<>>
             THEN process_pgn_data(games, platform, player_name, fide_id)
             ELSE <<>>)

\* one try block and its except branch (app.py:245-288, scheduler.py:50-94)
RunCycle(st, path, player_name, fide_id, platform, time_period, cond) ==
    ProcessPair(st, path, player_name, fide_id, platform, time_period, cond,
                GetPlayerGames(platform, ServerFor(platform, cond), Today,
                               time_period, 0, <<>>).games)

\* the guard of a platform block: the platform is selected and the player has a
\* username on it (app.py:244, 290; scheduler.py:49, 97)
PlatformSelected(platforms, form_name, username) ==
    /\ \E i \in 1..Len(platforms) : platforms[i] = form_name
    /\ username # NaN /\ username # Null

\* mutant of RunPlayer: no try block, the exception of the Chess.com pair
\* leaves the body before the Lichess pair
RunPlayerUnguarded(st, path, player_name, fide_id, platforms, time_period, conds) ==
    LET st1 == IF PlatformSelected(platforms, "Chess.com",
                                   UsernameOf(fide_id, "chess.com"))
               THEN RunCycle(st, path, player_name, fide_id, "chess.com",
                             time_period, conds[<<fide_id, "chess.com">>])
               ELSE st
        stopped == Len(st1.raised) > Len(st.raised) /\ st1.raised[Len(st1.raised)]
    IN IF ~stopped /\ PlatformSelected(platforms, "Lichess",
                                       UsernameOf(fide_id, "lichess"))
       THEN RunCycle(st1, path, player_name, fide_id, "lichess", time_period,
                     conds[<<fide_id, "lichess">>])
       ELSE st1

\* the two platform blocks for one player, Chess.com first
RunPlayer(st, path, player_name, fide_id, platforms, time_period, conds) ==
    LET st1 == IF PlatformSelected(platforms, "Chess.com",
                                   UsernameOf(fide_id, "chess.com"))
               THEN RunCycle(st, path, player_name, fide_id, "chess.com",
                             time_period, conds[<<fide_id, "chess.com">>])
               ELSE st
    IN IF PlatformSelected(platforms, "Lichess", UsernameOf(fide_id, "lichess"))
       THEN RunCycle(st1, path, player_name, fide_id, "lichess", time_period,
                     conds[<<fide_id, "lichess">>])
       ELSE st1

RECURSIVE RunPlayers(_, _, _, _, _, _)
\* the loop of app.py:223 over selected_players; the row of a player is the
\* first row of player_data with that name (app.py:224-226)
RunPlayers(st, path, names, platforms, time_period, conds) ==
    IF names = <<>> THEN st
    ELSE RunPlayers(RunPlayer(st, path, Head(names),
                              CHOOSE f \in FideIdsNamed(Head(names)) : TRUE,
                              platforms, time_period, conds),
                    path, Tail(names), platforms, time_period, conds)

\* the platform selections of the forms
PlatformChoices == {<<"Chess.com">>, <<"Lichess">>, <<"Chess.com", "Lichess">>}

\* the roster of two players is imported, nothing is collected yet
InitBatch ==
    /\ files = [a \in RosterAccounts |-> <<>>]
    /\ player_info = [f \in RosterFideIds |->
                        [exists |-> FALSE, dirs |-> {},
                         platforms |-> [p \in Platforms |-> NoEntry]]]
    /\ player_accounts = ImportedRoster.accounts
    /\ collection_logs = <<>>
    /\ now = 1
    /\ last = NoAttempt
    /\ fq = NoCall /\ fr = NoReturn /\ cq = NoCall /\ cr = NoReturn
    /\ nq = NoCall /\ nr = NoReturn
    /\ players = ImportedRoster.players
    /\ runs = NoRuns
    /\ batch = NoBatch
    /\ rq = NoRequest
    /\ scheduled_tasks = <<>>
    /\ jobs = <<>>
    /\ job_ids = <<>>
    /\ proc = "running"
    /\ clock = 0
    /\ fired = NoFiring
    /\ so = NoOperation

\* the whole batch, from the state of the archive and the store
Batch(path, names, platforms, time_period, conds) ==
    \E st \in {RunPlayers(BatchState(files, player_info, collection_logs,
                                     player_accounts),
                          path, names, platforms, time_period, conds)} :
       /\ files' = st.files
       /\ player_info' = st.player_info
       /\ collection_logs' = st.logs
       /\ player_accounts' = st.accounts
       /\ batch' = [done |-> TRUE, path |-> path, names |-> names,
                    platforms |-> platforms, conds |-> conds,
                    attempted |-> st.attempted, raised |-> st.raised,
                    prev_logs |-> collection_logs]

\* Start Collection for the selected players and platforms
ManualBatch ==
    /\ ~batch.done
    /\ \E names \in {<<Ann>>, <<Bob>>, <<Ann, Bob>>, <<Bob, Ann>>},
          platforms \in PlatformChoices,
          time_period \in {"Last month", "All available"},
          conds \in [RosterAccounts -> PairConditions] :
         Batch("manual", names, platforms, time_period, conds)
    /\ UNCHANGED <<now, last, rq, fq, fr, cq, cr, nq, nr, players, scheduled_tasks, jobs,
                   job_ids, proc, clock, fired, so, runs>>

\* one firing of the collection_task of one player
ScheduledFiring ==
    /\ ~batch.done
    /\ \E names \in {<<Ann>>, <<Bob>>}, platforms \in PlatformChoices,
          conds \in [RosterAccounts -> PairConditions] :
         Batch("scheduled", names, platforms, "Last month", conds)
    /\ UNCHANGED <<now, last, rq, fq, fr, cq, cr, nq, nr, players, scheduled_tasks, jobs,
                   job_ids, proc, clock, fired, so, runs>>

NextBatch == ManualBatch \/ ScheduledFiring

SpecBatch == InitBatch /\ [][NextBatch]_vars

\* the pairs a batch has to attempt: the selected players' accounts on the
\* selected platforms
FormName(platform) == IF platform = "chess.com" THEN "Chess.com" ELSE "Lichess"

SelectedPairs ==
    {a \in DOMAIN player_accounts :
        /\ \E i \in 1..Len(batch.names) : players[a[1]].name = batch.names[i]
        /\ \E i \in 1..Len(batch.platforms) : batch.platforms[i] = FormName(a[2])}

\* the number of entries of a sequence that satisfy a test
CountIn(seq, Test(_)) == Cardinality({i \in 1..Len(seq) : Test(seq[i])})

\* the rows the batch appended to collection_logs
NewLogs == SubSeq(collection_logs, Len(batch.prev_logs) + 1, Len(collection_logs))

\* C31: in a batch over several (player, platform) pairs an exception raised in
\* one pair does not stop the batch: every selected pair that has a username is
\* attempted exactly once and, unless the database refuses its own row, gets
\* exactly one log entry of its own; no other pair is attempted.
C31_BatchIsolation ==
    batch.done =>
        /\ \A a \in SelectedPairs :
              /\ CountIn(batch.attempted, LAMBDA x : x = a) = 1
              /\ CountIn(NewLogs, LAMBDA row : row.fide_id = a[1] /\ row.platform = a[2])
                    = IF batch.conds[a] = "db_fault" THEN 0 ELSE 1
        /\ \A i \in 1..Len(batch.attempted) : batch.attempted[i] \in SelectedPairs

\* a batch of three pairs whose first pair raised, and whose later pairs were
\* attempted and logged, one of them as success
C31_Witness ==
    /\ batch.done
    /\ Len(batch.attempted) = 3
    /\ batch.raised[1]
    /\ Len(NewLogs) = 3
    /\ NewLogs[1].status = "error"
    /\ \E i \in 2..3 : NewLogs[i].status = "success"

\* C32: a manual collection cycle on Chess.com with window "Last month" whose
\* adapter returns n >= 1 valid games and m >= 1 malformed entries, and that
\* meets no failure, saves exactly n games, adds n to total_games of the
\* account's row and appends one log entry with status success and
\* games_count = n.
C32_EndToEndCounts ==
    (/\ last.op = "manual" /\ last.acct[2] = "chess.com"
     /\ ~last.raised /\ ~last.write_failed /\ ~last.info_failed /\ last.logged
     /\ collection_logs[Len(collection_logs)].time_period = "Last month"
     /\ Len(last.pgn_list) >= 1 /\ last.fetched > Len(last.pgn_list)) =>
        /\ last.total_saved = Len(last.pgn_list)
        /\ collection_logs[Len(collection_logs)].status = "success"
        /\ collection_logs[Len(collection_logs)].games_count = Len(last.pgn_list)
        /\ player_accounts[last.acct].total_games =
              last.prev_row.total_games + Len(last.pgn_list)

\* C33: an attempt in which a write to a bucket file, to player_info.json or
\* to the database failed is recorded, with status error and never as success
\* or inactive.
C33_PersistenceFailureLogged ==
    (/\ last.op \in {"manual", "scheduled"}
     /\ (last.raised \/ last.write_failed \/ last.info_failed \/ ~last.logged)) =>
        /\ last.logged
        /\ collection_logs[Len(collection_logs)].fide_id = last.acct[1]
        /\ collection_logs[Len(collection_logs)].platform = last.acct[2]
        /\ collection_logs[Len(collection_logs)].status = "error"

\* the accounts the worker thread may collect while the script thread collects
\* f1 on chess.com: the same player's other platform, or another player
ParallelAccounts == {<<"f1", "lichess">>, <<"f2", "chess.com">>}

\* the roster is imported, nothing is collected yet, and the two threads are
\* about to collect different accounts
InitParallel ==
    /\ files = [a \in RosterAccounts |-> <<>>]
    /\ player_info = [f \in RosterFideIds |->
                        [exists |-> FALSE, dirs |-> {},
                         platforms |-> [p \in Platforms |-> NoEntry]]]
    /\ player_accounts = ImportedRoster.accounts
    /\ collection_logs = <<>>
    /\ now = 1
    /\ last = NoAttempt
    /\ fq = NoCall /\ fr = NoReturn /\ cq = NoCall /\ cr = NoReturn
    /\ nq = NoCall /\ nr = NoReturn
    /\ players = ImportedRoster.players
    /\ runs \in {[NoRuns EXCEPT !["scheduled"].acct = a] : a \in ParallelAccounts}
    /\ batch = NoBatch
    /\ rq = NoRequest
    /\ scheduled_tasks = <<>>
    /\ jobs = <<>>
    /\ job_ids = <<>>
    /\ proc = "running"
    /\ clock = 0
    /\ fired = NoFiring
    /\ so = NoOperation

SpecParallel == InitParallel /\ [][NextOverlap]_vars

\* C34: concurrent collection runs for different accounts both succeed
\* independently, two accounts of one player included: after both finish, each
\* account's bucket files and its entry of player_info.json are what its own
\* run alone produces.
C34_DifferentAccountsIndependent ==
    (BothDone /\ runs["manual"].acct # runs["scheduled"].acct) =>
        \A r \in Runs :
            /\ files[runs[r].acct] = CompleteWrite(r)
            /\ player_info[runs[r].acct[1]].platforms[runs[r].acct[2]] =
                  UpdateSummary(NoEntry, Len(runs[r].pgn_list),
                                Len(runs[r].games) > 0, now)

----------------------------------------------------------------------------
(* One call of _make_request, step by step (api_clients.py:31-76 and       *)
(* 304-364): the delay, the request, and on a 429 answer the sleep of      *)
(* Retry-After and the call again from inside the except clause.  Every    *)
(* retry is one more frame of the interpreter's stack.                     *)

\* the depth of nested calls at which the interpreter raises RecursionError
\* (sys.getrecursionlimit(), 1000 by default, is never raised by the program)
RecursionLimit == 3

\* the Retry-After headers of a 429 answer: a number of seconds (0: the header
\* is absent), or an HTTP-date when the field http_date of the service is set
RetryAfterHeaders == {0, 5, 30}

\* the answers other than 429: served, not found, forbidden, server error, no
\* answer (connection error)
FinalAnswers == {200, 404, 403, 500, 0}

\* what the call returns for its last answer.  Chess.com: the decoded json,
\* {"archives": []}, or the exception of line 71; Lichess: the response of the
\* service or a mock response with empty content
Returned(client, status) ==
    IF client = "chess.com"
    THEN MakeRequest(<<status>>)
    ELSE IF LichessMakeRequest(<<status>>) THEN "response" ELSE "mock"

\* a client calls _make_request(endpoint): time.sleep(self.request_delay), then
\* the request is sent
CallMakeRequest ==
    /\ rq.pc = "idle"
    /\ \E client \in Platforms, retry_after \in RetryAfterHeaders,
          http_date \in BOOLEAN :
         rq' = [pc |-> "get", client |-> client, depth |-> 1,
                server |-> [retry_after |-> retry_after, http_date |-> http_date],
                slept |-> RequestDelay, answered |-> 0, recursion_error |-> FALSE,
                returned |-> ""]
    /\ UNCHANGED <<files, player_info, player_accounts, collection_logs, now, last,
                   fq, fr, cq, cr, nq, nr, players, scheduled_tasks, jobs, job_ids,
                   proc, clock, fired, so, runs, batch>>

\* the service answers 429: raise_for_status raises HTTPError and the except
\* clause sleeps for Retry-After seconds (lines 56-60, 329-333)
Answer429 ==
    /\ rq.pc = "get"
    /\ rq.depth < RecursionLimit
    /\ ~rq.server.http_date
    /\ rq' = [rq EXCEPT !.pc = "retry", !.answered = 429,
                        !.slept = @ + RetryAfter(rq.server)]
    /\ UNCHANGED <<files, player_info, player_accounts, collection_logs, now, last,
                   fq, fr, cq, cr, nq, nr, players, scheduled_tasks, jobs, job_ids,
                   proc, clock, fired, so, runs, batch>>

\* the service answers 429 with an HTTP-date in Retry-After: int(...) of lines
\* 58 and 331 raises ValueError inside the except clause, which no clause of
\* the same try statement catches, and the exception leaves _make_request
Answer429Date ==
    /\ rq.pc = "get"
    /\ rq.depth < RecursionLimit
    /\ rq.server.http_date
    /\ rq' = [rq EXCEPT !.pc = "done", !.answered = 429, !.returned = "raise"]
    /\ UNCHANGED <<files, player_info, player_accounts, collection_logs, now, last,
                   fq, fr, cq, cr, nq, nr, players, scheduled_tasks, jobs, job_ids,
                   proc, clock, fired, so, runs, batch>>

\* return self._make_request(endpoint, params) of lines 61 and 334: one frame
\* deeper, the delay again, then the request
Retry ==
    /\ rq.pc = "retry"
    /\ rq' = [rq EXCEPT !.pc = "get", !.depth = @ + 1, !.slept = @ + RequestDelay]
    /\ UNCHANGED <<files, player_info, player_accounts, collection_logs, now, last,
                   fq, fr, cq, cr, nq, nr, players, scheduled_tasks, jobs, job_ids,
                   proc, clock, fired, so, runs, batch>>

\* the service gives an answer other than 429 (or none): the call returns,
\* through every frame
AnswerFinal ==
    /\ rq.pc = "get"
    /\ rq.depth < RecursionLimit
    /\ \E status \in FinalAnswers :
         rq' = [rq EXCEPT !.pc = "done", !.answered = status,
                          !.returned = Returned(rq.client, status)]
    /\ UNCHANGED <<files, player_info, player_accounts, collection_logs, now, last,
                   fq, fr, cq, cr, nq, nr, players, scheduled_tasks, jobs, job_ids,
                   proc, clock, fired, so, runs, batch>>

\* the stack is full: the call of requests.get inside the try block raises
\* RecursionError, the clause "except Exception" of the deepest frame catches it
\* (lines 73-76, 358-364) and the empty answer is returned through every frame
RecursionError ==
    /\ rq.pc = "get"
    /\ rq.depth = RecursionLimit
    /\ rq' = [rq EXCEPT !.pc = "done", !.recursion_error = TRUE,
                        !.returned = Returned(rq.client, 0)]
    /\ UNCHANGED <<files, player_info, player_accounts, collection_logs, now, last,
                   fq, fr, cq, cr, nq, nr, players, scheduled_tasks, jobs, job_ids,
                   proc, clock, fired, so, runs, batch>>

NextRetry ==
    CallMakeRequest \/ Answer429 \/ Answer429Date \/ Retry \/ AnswerFinal \/ RecursionError

SpecRetry == Init /\ [][NextRetry]_vars

\* C35: a call of _make_request returns only on an answer other than 429: as
\* long as every answer of the service is 429 the call keeps sleeping and
\* retrying and does not return.
C35_ReturnsOnlyOnAnswer ==
    rq.pc = "done" => (rq.answered # 429 /\ rq.answered \in FinalAnswers)

\* the entries of the list handed to process_pgn_data that hold a game
ParseableInputs == SelectSeq(nq.pgn_list, LAMBDA pgn : pgn.ok)

\* C36: the Normalizer attaches the FIDE id to the side whose name matches
\* player_name: WhiteFideId = fide_id when player_name matches the White header,
\* BlackFideId = fide_id when it matches the Black header; a side whose name
\* does not match keeps the header it had, on both platforms.
C36_FideIdOnMatchingSide ==
    nr.done =>
        /\ Len(nr.out) = Len(ParseableInputs)
        /\ \A i \in 1..Len(nr.out) :
              /\ IsSubstr(nq.player_name, ParseableInputs[i].white) =>
                    nr.out[i].wfid = nq.fide_id
              /\ IsSubstr(nq.player_name, ParseableInputs[i].black) =>
                    nr.out[i].bfid = nq.fide_id
              /\ ~IsSubstr(nq.player_name, ParseableInputs[i].white) =>
                    nr.out[i].wfid = ParseableInputs[i].wfid
              /\ ~IsSubstr(nq.player_name, ParseableInputs[i].black) =>
                    nr.out[i].bfid = ParseableInputs[i].bfid

\* C37: while the process runs, a scheduled_tasks row with is_active = 1 exists
\* for a job_id if and only if a job with that id is registered in the running
\* scheduler.
C37_TasksMatchJobs ==
    proc = "running" =>
        \A j \in (DOMAIN scheduled_tasks) \cup (DOMAIN jobs) :
            (j \in DOMAIN scheduled_tasks /\ scheduled_tasks[j].is_active)
                <=> j \in DOMAIN jobs

\* C38: is_active and last_update of a player_accounts row follow the most
\* recent log entry of the account: a logged attempt sets is_active to
\* (status = success) and last_update to the entry's timestamp, inactive and
\* error attempts set is_active to false, and no other step changes the two
\* columns of an existing row.
C38_AccountFollowsLastLog ==
    [][IF so'.op = "log" /\ so'.n = so.n + 1 /\ so'.ok
       THEN /\ Len(collection_logs') = Len(collection_logs) + 1
            /\ \A a \in DOMAIN player_accounts :
                  IF a = so'.acct
                  THEN LET row == collection_logs'[Len(collection_logs')]
                       IN /\ <<row.fide_id, row.platform>> = a
                          /\ player_accounts'[a].is_active = (row.status = "success")
                          /\ player_accounts'[a].last_update = row.timestamp
                  ELSE player_accounts'[a] = player_accounts[a]
       ELSE /\ collection_logs' = collection_logs
            /\ \A a \in DOMAIN player_accounts :
                  /\ a \in DOMAIN player_accounts'
                  /\ player_accounts'[a].is_active = player_accounts[a].is_active
                  /\ player_accounts'[a].last_update = player_accounts[a].last_update
      ]_vars

\* an account whose attempt before the last was a success is logged with an
\* error, and its row is inactive with the timestamp of that entry
C38_Witness ==
    /\ so.op = "log" /\ so.ok /\ so.outcome[1] = "error"
    /\ so.acct \in DOMAIN player_accounts
    /\ Len(collection_logs) >= 2
    /\ collection_logs[Len(collection_logs) - 1].status = "success"
    /\ collection_logs[Len(collection_logs) - 1].fide_id = so.acct[1]
    /\ collection_logs[Len(collection_logs) - 1].platform = so.acct[2]
    /\ ~player_accounts[so.acct].is_active
    /\ player_accounts[so.acct].last_update =
          collection_logs[Len(collection_logs)].timestamp
    /\ player_accounts[so.acct].total_games > 0

----------------------------------------------------------------------------
(* Sequential collection attempts that meet no failure of the file system  *)
(* or of the database, from the empty archive                              *)

\* Start Collection for one pair, every write succeeding
CleanManualCollection ==
    /\ last.n < MaxAttempts
    /\ \E acct \in Accounts, time_period \in {"Last month", "All available"} :
         \E server \in Servers(acct[2], Today) :
            Cycle("manual", acct[1], acct[2], time_period, 0, <<>>, server, NoFaults)
    /\ UNCHANGED <<now, fq, fr, cq, cr, nq, nr, rosterVars>>

\* collection_task for one pair, every write succeeding
CleanScheduledCollection ==
    /\ last.n < MaxAttempts
    /\ \E acct \in Accounts :
         \E server \in Servers(acct[2], Today) :
            Cycle("scheduled", acct[1], acct[2], "Last month", 0, <<>>, server, NoFaults)
    /\ UNCHANGED <<now, fq, fr, cq, cr, nq, nr, rosterVars>>

NextClean == CleanManualCollection \/ CleanScheduledCollection \/ Tick

SpecClean == Init /\ [][NextClean]_vars

RECURSIVE SumLen(_, _)
\* the number of chunks in the bucket files of the keys
SumLen(bucket_files, keys) ==
    IF keys = {} THEN 0
    ELSE LET k == CHOOSE x \in keys : TRUE
         IN Len(bucket_files[k]) + SumLen(bucket_files, keys \ {k})

\* the number of games stored in the bucket files of an account
StoredGames(acct) == SumLen(files[acct], DOMAIN files[acct])

\* the buckets the last attempt wrote: the keys of its games_by_date
WrittenBuckets ==
    DOMAIN GamesByDate(last.pgn_list, Instants[last.at],
                       [keys |-> <<>>, games |-> <<>>]).games

\* the parseable games the last attempt handed to save_pgn_files
GivenParseable == SelectSeq(last.pgn_list, LAMBDA pgn : pgn.ok)

\* C39: from the empty archive and under sequential attempts with no write
\* failure, total_games of an account's summary entry is at least the number
\* of games stored in its bucket files, and save_pgn_files saves exactly the
\* parseable games it is given, each in exactly one of the buckets it writes.
C39_SummaryCoversStored ==
    /\ \A acct \in Accounts :
          player_info[acct[1]].platforms[acct[2]].total_games >= StoredGames(acct)
    /\ (Attempted /\ last.pgn_list # <<>>) =>
          /\ last.total_saved = Len(GivenParseable)
          /\ WrittenBuckets \subseteq DOMAIN files[last.acct]
          /\ SumLen(files[last.acct], WrittenBuckets) = Len(GivenParseable)
          /\ \A i \in 1..Len(GivenParseable) :
                Cardinality({k \in WrittenBuckets :
                               \E j \in 1..Len(files[last.acct][k]) :
                                  files[last.acct][k][j].pgn = GivenParseable[i]}) = 1

\* a second attempt on an account has saved games again: the summary counts
\* the games of both attempts and exceeds the games the bucket files hold
C39_Witness ==
    /\ Attempted /\ last.n = 2 /\ last.pgn_list # <<>>
    /\ last.prev_entry.present /\ last.prev_entry.total_games > 0
    /\ StoredGames(last.acct) <
          player_info[last.acct[1]].platforms[last.acct[2]].total_games
    /\ player_info[last.acct[1]].platforms[last.acct[2]].total_games =
          last.prev_entry.total_games + last.total_saved

====
